---- MODULE Spec2Model ----
(***************************************************************************)
(* SentinelNet: frame ingestion, motion-window buffering and motion-clip   *)
(* extraction (src/app/main.py, src/app/motion_detector.py).               *)
(*                                                                         *)
(* The specifications of this module:                                      *)
(*   SpecRanges  _find_motion_ranges and process_segment as functions      *)
(*   SpecBuckets the segment bucket of process_continuous_recording        *)
(*   SpecUpload  the multipart/raw frame extractor of upload_stream        *)
(*   Spec        SecuritySystem and MotionDetector under concurrent uploads*)
(*   SpecEndpoints the registry's and the live view's endpoints            *)
(*   SpecCalls   threads calling SecuritySystem's methods directly, and    *)
(*               FairSpecCalls, the same under a fair scheduler            *)
(* Indices of Python lists are 0-based; TLA+ sequences are 1-based, so the *)
(* Python element xs[i] is xs[i + 1] here.                                 *)
(***************************************************************************)
EXTENDS Integers, Sequences, FiniteSets, TLC

VARIABLES
    \* ---- SpecRanges: one call of _find_motion_ranges
    motion_frames_arg,      \* the motion_frames argument (list of booleans)
    buffer_frames,          \* self.buffer_frames
    min_recording_frames,   \* self.min_recording_frames
    rpc,                    \* position: "call" | "returned" | "remerged"
    ranges,                 \* the list built by the scan loop, before merging
    merged_ranges,          \* the returned list
    remerged_ranges,        \* the merge step applied to merged_ranges
    \* ---- SpecBuckets: the bucket computation on two clock readings
    bucket_in,              \* the two readings and recording_segment_minutes
    bucket_out,             \* <<>>, or the buckets of the two readings
    \* ---- SecuritySystem (main.py 70-94); a dict is a function on its keys
    frames,                 \* self.frames: device id -> latest JPEG payload
    devices,                \* self.devices: device id -> Device
    sys_lock,               \* self.lock: "free" or the task holding it
    video_writers,          \* self.video_writers
    last_video_time,        \* self.last_video_time
    frame_counters,         \* self.frame_counters
    motion_detectors,       \* self.motion_detectors: device id -> MotionDetector
    motion_detected,        \* self.motion_detected
    annotated_frames,       \* self.annotated_frames
    clips,                  \* motion clip files: <<device, label>> -> frames
    now,                    \* the wall clock: an index into Instants
    shutting_down,          \* the server has begun its shutdown
    next_frame,             \* number of the next camera frame
    accepted,               \* history: device id -> the payload of the latest
                            \* update_frame call that passed validation
    retired,                \* the ClipTasks still held by the executors of
                            \* detectors that are no longer in motion_detectors
    pc,                     \* per task: position in the method it runs
    loc,                    \* per task: the locals of that method
    \* ---- upload_stream: one request (main.py 420-611)
    request,                \* the request: device id, Content-Type, body
    up_pc,                  \* position of the handler
    up_pos,                 \* body bytes delivered by request.stream() so far
    up_buffer,              \* local buffer
    up_boundary,            \* local boundary
    up_emitted,             \* history: payloads passed to update_frame
    up_last_carve,          \* the latest carve: buffer lengths before and after, up_pos
    up_response,            \* the response: <<>> while none
    \* ---- the other endpoints (main.py 392-418, 728-754)
    endpoint,               \* per task: the handler it runs, its arguments,
                            \* its position, its locals and its response
    \* ---- the configuration, and what has left the program's reach
    config,                 \* self.config: the SecuritySystemConfig
    discarded,              \* history: the frames that were in the buffer of a
                            \* detector when it was replaced or deleted
    open_writers            \* per device: the number of its cv2.VideoWriter
                            \* objects that are open

rvars == <<motion_frames_arg, buffer_frames, min_recording_frames, rpc, ranges,
           merged_ranges, remerged_ranges, bucket_in, bucket_out>>

store_vars == <<frames, devices>>
recorder_vars == <<video_writers, last_video_time, frame_counters>>
motion_vars == <<motion_detectors, motion_detected, annotated_frames>>
svars == <<store_vars, sys_lock, recorder_vars, motion_vars, clips, now,
           shutting_down, next_frame, accepted, retired, pc, loc>>

uvars == <<request, up_pc, up_pos, up_buffer, up_boundary, up_emitted,
           up_last_carve, up_response, endpoint>>

hvars == <<config, discarded, open_writers>>

vars == <<rvars, svars, uvars, hvars>>

-----------------------------------------------------------------------------
(* Bounds of the model *)

MaxFlags == 10          \* longest motion_frames list enumerated
MaxBufferFrames == 3    \* largest buffer_frames enumerated
MaxMinFrames == 4       \* largest min_recording_frames enumerated
SegmentFrames == 2      \* MotionDetector.segment_frames, the buffer's capacity
MaxFrames == 3          \* camera frames handed to update_frame in one run
MaxParts == 2           \* parts in one multipart request body
MaxChunk == 3           \* bytes in one chunk of a body, unless it is all the rest
MaxMinute == 11         \* the minutes of SpecBuckets' clock readings, from 0
MaxSegmentMinutes == 5  \* recording_segment_minutes in SpecBuckets, from 1
MaxLimit == 2           \* largest limit of a live-view request
MaxClipFrames == 2      \* frames of the segment handed to _create_motion_clip
MaxCalls == 3           \* direct calls of the system's methods in one run of SpecCalls
ClipBufferFrames == 1   \* buffer_frames of the detectors of Spec
ClipMinFrames == 1      \* min_recording_frames of the detectors of Spec

-----------------------------------------------------------------------------
(* Helpers of Python's built-ins *)

Min(a, b) == IF a <= b THEN a ELSE b
Max(a, b) == IF a >= b THEN a ELSE b

\* xs[lo:hi] for 0 <= lo <= hi <= len(xs)
Slice(xs, lo, hi) == SubSeq(xs, lo + 1, hi)

\* any(xs) for a list of booleans
AnyTrue(xs) == \E k \in 1..Len(xs) : xs[k]

BoolSeqs(n) == UNION {[1..k -> BOOLEAN] : k \in 0..n}

-----------------------------------------------------------------------------
(* Byte strings.  A byte string is a sequence of integers 0..255.  Python  *)
(* positions are 0-based; -1 is bytes.find's "not found".                  *)

CRLF == <<13, 10>>
\* b"\r\n\r\n"  (main.py 525)
HeaderTerminator == <<13, 10, 13, 10>>
\* b'\xff\xd8' and b'\xff\xd9'  (main.py 169, 450, 566, 567)
SOI == <<255, 216>>
EOI == <<255, 217>>
\* 'content-length:'  (main.py 533)
ContentLengthPrefix ==
    <<99, 111, 110, 116, 101, 110, 116, 45, 108, 101, 110, 103, 116, 104, 58>>
\* 'boundary='  (main.py 501)
BoundaryParam == <<98, 111, 117, 110, 100, 97, 114, 121, 61>>
\* "image/jpeg"  (main.py 440)
ImageJpeg == <<105, 109, 97, 103, 101, 47, 106, 112, 101, 103>>
\* "multipart/form-data"  (main.py 492)
MultipartFormData ==
    <<109, 117, 108, 116, 105, 112, 97, 114, 116, 47, 102, 111, 114, 109, 45,
      100, 97, 116, 97>>
\* b"--"  (main.py 503)
DashDash == <<45, 45>>
\* Python's str.strip() whitespace: space, \t, \n, \r, \x0b, \x0c
Whitespace == {32, 9, 10, 13, 11, 12}

\* s[lo:hi] with Python's rules: a negative index counts from the end, and
\* indices are clamped to 0..len(s)
PyIndex(s, i) == IF i < 0 THEN Max(0, Len(s) + i) ELSE Min(i, Len(s))
PySlice(s, lo, hi) == SubSeq(s, PyIndex(s, lo) + 1, PyIndex(s, hi))
\* s[lo:]
PySliceFrom(s, lo) == SubSeq(s, PyIndex(s, lo) + 1, Len(s))

\* s.startswith(p), s.endswith(p)
StartsWith(s, p) == Len(s) >= Len(p) /\ SubSeq(s, 1, Len(p)) = p
EndsWith(s, p) == Len(s) >= Len(p) /\ SubSeq(s, Len(s) - Len(p) + 1, Len(s)) = p

\* Whether p occurs in s at 0-based position i
OccursAt(s, p, i) == i >= 0 /\ i + Len(p) <= Len(s) /\ SubSeq(s, i + 1, i + Len(p)) = p

\* s.find(p, from): the lowest position >= from where p occurs, or -1
RECURSIVE Find(_, _, _)
Find(s, p, from) ==
    IF from + Len(p) > Len(s) THEN -1
    ELSE IF OccursAt(s, p, from) THEN from
    ELSE Find(s, p, from + 1)

\* s.rfind(p): the highest position where p occurs, or -1
RECURSIVE RFindFrom(_, _, _)
RFindFrom(s, p, from) ==
    IF from < 0 THEN -1
    ELSE IF OccursAt(s, p, from) THEN from
    ELSE RFindFrom(s, p, from - 1)
RFind(s, p) == RFindFrom(s, p, Len(s) - Len(p))

\* p in s
Contains(s, p) == Find(s, p, 0) # -1

\* bytes.decode('utf-8', errors='ignore') on the bytes this model sends: the
\* only bytes >= 128 are FF, D8 and D9, never followed by a continuation
\* byte, so each is an invalid sequence of its own and is dropped
DecodeIgnore(s) == SelectSeq(s, LAMBDA c : c < 128)

\* str.lower() on ASCII
LowerChar(c) == IF c >= 65 /\ c <= 90 THEN c + 32 ELSE c
Lower(s) == [k \in 1..Len(s) |-> LowerChar(s[k])]

\* s.split(sep): the list of the pieces between the occurrences of sep
RECURSIVE Split(_, _)
Split(s, sep) ==
    LET at == Find(s, sep, 0) IN
    IF at = -1 THEN <<s>>
    ELSE <<SubSeq(s, 1, at)>> \o Split(SubSeq(s, at + Len(sep) + 1, Len(s)), sep)

\* s.strip(): leading and trailing characters of the set removed
RECURSIVE LStrip(_, _)
LStrip(s, chars) ==
    IF s # <<>> /\ s[1] \in chars THEN LStrip(Tail(s), chars) ELSE s
RECURSIVE RStrip(_, _)
RStrip(s, chars) ==
    IF s # <<>> /\ s[Len(s)] \in chars
    THEN RStrip(SubSeq(s, 1, Len(s) - 1), chars) ELSE s
Strip(s, chars) == RStrip(LStrip(s, chars), chars)

\* The value of a string of ASCII digits
RECURSIVE DigitsValue(_)
DigitsValue(ds) ==
    IF ds = <<>> THEN 0
    ELSE 10 * DigitsValue(SubSeq(ds, 1, Len(ds) - 1)) + (ds[Len(ds)] - 48)

IsDigits(ds) == ds # <<>> /\ \A k \in 1..Len(ds) : ds[k] >= 48 /\ ds[k] <= 57

\* int(s) for a stripped string: an optional sign and decimal digits; any
\* other string raises ValueError
IntParses(s) ==
    IF s # <<>> /\ s[1] \in {43, 45} THEN IsDigits(Tail(s)) ELSE IsDigits(s)
IntValue(s) ==
    IF s[1] = 45 THEN 0 - DigitsValue(Tail(s))
    ELSE IF s[1] = 43 THEN DigitsValue(Tail(s))
    ELSE DigitsValue(s)

\* str(n).encode() for n >= 0 or n < 0
RECURSIVE NatDigits(_)
NatDigits(n) ==
    IF n < 10 THEN <<48 + n>> ELSE NatDigits(n \div 10) \o <<48 + (n % 10)>>
IntDigits(n) == IF n < 0 THEN <<45>> \o NatDigits(0 - n) ELSE NatDigits(n)

\* The concatenation of a list of byte strings
RECURSIVE Concat(_)
Concat(ss) == IF ss = <<>> THEN <<>> ELSE ss[1] \o Concat(Tail(ss))

-----------------------------------------------------------------------------
(* upload_stream, multipart branch: the scan loop  (main.py 518-582) *)

\* lines 530-537: the last Content-Length header line whose value parses.
\* An optional value is a list: <<>> is None, <<n>> is n.
RECURSIVE ContentLengthOf(_, _)
ContentLengthOf(lines, content_length) ==
    IF lines = <<>> THEN content_length
    ELSE LET line == lines[1]
             value == Strip(PySliceFrom(line, Find(line, <<58>>, 0) + 1), Whitespace)
         IN  IF StartsWith(Lower(line), ContentLengthPrefix) /\ IntParses(value)
             THEN ContentLengthOf(Tail(lines), <<IntValue(value)>>)
             ELSE ContentLengthOf(Tail(lines), content_length)

\* lines 531-537
ParseContentLength(buf, start_pos, headers_end) ==
    ContentLengthOf(Split(DecodeIgnore(PySlice(buf, start_pos, headers_end)), CRLF),
                    <<>>)

\* The length check left out: a part is carved as soon as its headers are in.
EnoughDataAlways(buf, data_end) == TRUE

\* line 557: not (len(buffer) < data_end)
EnoughData(buf, data_end) == ~(Len(buf) < data_end)

\* The wait for the next boundary left out: a part without a length header
\* is carved up to the end of the buffer when no later boundary is in it.
ScanIterationEager(buf, boundary) ==
    LET start_pos == Find(buf, boundary, 0)
        headers_end == IF start_pos = -1 THEN -1
                       ELSE Find(buf, HeaderTerminator, start_pos)
        content_length == ParseContentLength(buf, start_pos, headers_end)
        found == Find(buf, boundary, start_pos + Len(boundary))
        next_boundary == IF found = -1 THEN Len(buf) ELSE found
        data_start == headers_end + 4
        data_end == data_start + content_length[1]
        Break == [wait |-> TRUE, frame_data |-> <<>>, rest |-> buf]
    IN  IF start_pos = -1 \/ headers_end = -1 THEN Break
        ELSE IF content_length = <<>>
        THEN [wait |-> FALSE,
              frame_data |-> PySlice(buf, data_start, next_boundary),
              rest |-> PySliceFrom(buf, next_boundary)]
        ELSE IF ~EnoughData(buf, data_end) THEN Break
             ELSE [wait |-> FALSE,
                   frame_data |-> PySlice(buf, data_start, data_end),
                   rest |-> PySliceFrom(buf, data_end)]

\* lines 519-563, one iteration of the while loop: either the loop breaks
\* (wait = TRUE) or a part is carved (frame_data, and the buffer that remains)
ScanIteration(buf, boundary) ==
    LET start_pos == Find(buf, boundary, 0)
        headers_end == IF start_pos = -1 THEN -1
                       ELSE Find(buf, HeaderTerminator, start_pos)
        content_length == ParseContentLength(buf, start_pos, headers_end)
        next_boundary == Find(buf, boundary, start_pos + Len(boundary))
        data_start == headers_end + 4
        data_end == data_start + content_length[1]
        Break == [wait |-> TRUE, frame_data |-> <<>>, rest |-> buf]
    IN  IF start_pos = -1 \/ headers_end = -1 THEN Break
        ELSE IF content_length = <<>>
        THEN IF next_boundary = -1 THEN Break
             ELSE [wait |-> FALSE,
                   frame_data |-> PySlice(buf, data_start, next_boundary),
                   rest |-> PySliceFrom(buf, next_boundary)]
        ELSE IF ~EnoughData(buf, data_end) THEN Break
             ELSE [wait |-> FALSE,
                   frame_data |-> PySlice(buf, data_start, data_end),
                   rest |-> PySliceFrom(buf, data_end)]

\* lines 566-569: both markers found, the last end marker after the first
\* start marker
HasJpegMarkers(frame_data) ==
    LET jpeg_start == Find(frame_data, SOI, 0)
        jpeg_end == RFind(frame_data, EOI)
    IN  jpeg_start # -1 /\ jpeg_end # -1 /\ jpeg_end > jpeg_start

\* The narrowing left out: the carved payload is emitted as it is.
JpegDataWhole(frame_data) == frame_data

\* line 570: jpeg_data = frame_data[jpeg_start:jpeg_end+2]
JpegData(frame_data) ==
    PySlice(frame_data, Find(frame_data, SOI, 0), RFind(frame_data, EOI) + 2)

\* cv2.imdecode (lines 183-186, 453-455, 574-576), the external codec: a
\* payload decodes unless it is empty or holds the byte 00, which stands for
\* corrupt image data
ImDecodes(data) == data # <<>> /\ \A k \in 1..Len(data) : data[k] # 0

-----------------------------------------------------------------------------
(* MotionDetector._find_motion_ranges  (motion_detector.py 184-237) *)

\* The start index without the padding before the motion.
StartOfMotionNoPad(i, b) == i

\* line 202: start_idx = max(0, i - self.buffer_frames)
StartOfMotion(i, b) == Max(0, i - b)

\* No quiet frames required: the window is empty.
NoMotionWindowNone(i, b) == 0

\* line 205: no_motion_window = min(self.buffer_frames, i)
NoMotionWindow(i, b) == Min(b, i)

\* The quiet window one frame short: buffer_frames false flags in a row,
\* the index itself included, end the motion.
MotionEndedShort(mf, i, b) ==
    ~AnyTrue(Slice(mf, i - Min(Max(b - 1, 0), i), i))

\* line 206: i >= no_motion_window and not any(motion_frames[i-no_motion_window:i])
MotionEnded(mf, i, b) ==
    /\ i >= NoMotionWindow(i, b)
    /\ ~AnyTrue(Slice(mf, i - NoMotionWindow(i, b), i))

\* The end index without the padding after the motion.
EndOfMotionNoPad(mf, i, b) == Min(Len(mf) - 1, i)

\* line 209: end_idx = min(len(motion_frames) - 1, i + self.buffer_frames)
EndOfMotion(mf, i, b) == Min(Len(mf) - 1, i + b)

\* The minimum-length check left out.
LongEnoughAlways(start_idx, end_idx, m) == TRUE

\* lines 211-212 and 218-219: motion_duration >= self.min_recording_frames
LongEnough(start_idx, end_idx, m) == end_idx - start_idx + 1 >= m

\* lines 198-220: the scan loop from index i on, then the tail case
RECURSIVE ScanFrom(_, _, _, _, _, _, _)
ScanFrom(mf, i, in_motion, start_idx, rs, b, m) ==
    IF i >= Len(mf)
    THEN \* lines 216-220: motion continues until the end of the segment
         IF in_motion /\ LongEnough(start_idx, Len(mf) - 1, m)
         THEN Append(rs, <<start_idx, Len(mf) - 1>>)
         ELSE rs
    ELSE LET has_motion == mf[i + 1] IN
         IF has_motion /\ ~in_motion
         THEN ScanFrom(mf, i + 1, TRUE, StartOfMotion(i, b), rs, b, m)
         ELSE IF ~has_motion /\ in_motion /\ MotionEnded(mf, i, b)
         THEN LET end_idx == EndOfMotion(mf, i, b) IN
              ScanFrom(mf, i + 1, FALSE, start_idx,
                       IF LongEnough(start_idx, end_idx, m)
                       THEN Append(rs, <<start_idx, end_idx>>)
                       ELSE rs,
                       b, m)
         ELSE ScanFrom(mf, i + 1, in_motion, start_idx, rs, b, m)

\* lines 194-220: ranges = [], in_motion = False, start_idx = 0, the loop
ScanMotion(mf, b, m) == ScanFrom(mf, 0, FALSE, 0, <<>>, b, m)

\* lines 198-213 again, for the events alone: the indices at which the loop
\* sets in_motion (opened) and at which it clears it (closed)
RECURSIVE EventsFrom(_, _, _, _, _)
EventsFrom(mf, i, in_motion, events, b) ==
    IF i >= Len(mf) THEN events
    ELSE LET has_motion == mf[i + 1] IN
         IF has_motion /\ ~in_motion
         THEN EventsFrom(mf, i + 1, TRUE, Append(events, [opened |-> TRUE, at |-> i]), b)
         ELSE IF ~has_motion /\ in_motion /\ MotionEnded(mf, i, b)
         THEN EventsFrom(mf, i + 1, FALSE, Append(events, [opened |-> FALSE, at |-> i]), b)
         ELSE EventsFrom(mf, i + 1, in_motion, events, b)

ScanEvents(mf, b) == EventsFrom(mf, 0, FALSE, <<>>, b)

\* The merge step left out: the scanned list returned as it is.
MergeNothing(rs) == rs

\* The merge loop with prev_end read once before the loop instead of from
\* merged_ranges[-1] on every iteration.
RECURSIVE MergeStaleFrom(_, _, _)
MergeStaleFrom(rs, k, acc) ==
    IF k > Len(rs) THEN acc
    ELSE LET last == acc[Len(acc)] IN
         IF rs[k][1] <= rs[1][2]
         THEN MergeStaleFrom(rs, k + 1,
                  [acc EXCEPT ![Len(acc)] = <<last[1], Max(last[2], rs[k][2])>>])
         ELSE MergeStaleFrom(rs, k + 1, Append(acc, rs[k]))

MergeStale(rs) == IF rs = <<>> THEN <<>> ELSE MergeStaleFrom(rs, 2, <<rs[1]>>)

\* lines 225-233: the loop over ranges[1:], merged so far in acc
RECURSIVE MergeFrom(_, _, _)
MergeFrom(rs, k, acc) ==
    IF k > Len(rs) THEN acc
    ELSE LET prev == acc[Len(acc)]
             cur == rs[k]
         IN  IF cur[1] <= prev[2]
             THEN MergeFrom(rs, k + 1,
                      [acc EXCEPT ![Len(acc)] = <<prev[1], Max(prev[2], cur[2])>>])
             ELSE MergeFrom(rs, k + 1, Append(acc, cur))

\* lines 222-237: merge overlapping ranges; [] for no ranges
MergeRanges(rs) == IF rs = <<>> THEN <<>> ELSE MergeFrom(rs, 2, <<rs[1]>>)

\* lines 184-237
_find_motion_ranges(mf, b, m) == MergeRanges(ScanMotion(mf, b, m))

-----------------------------------------------------------------------------
(* SecuritySystem and MotionDetector: state *)

Devices == {"cam1", "cam2"}
\* Threads calling update_frame, and the thread that runs the shutdown event
Tasks == {"t1", "t2"}
Callers == Tasks
Main == "main"
Free == "free"

\* Python dicts
Has(dict, k) == k \in DOMAIN dict
\* An assignment that overwrites every value of the dict.
PutAll(dict, k, v) == [x \in (DOMAIN dict) \cup {k} |-> v]

Put(dict, k, v) == [x \in (DOMAIN dict) \cup {k} |-> IF x = k THEN v ELSE dict[x]]
EmptyDict == <<>>
\* dict.get(k): the value as <<v>>, or None as <<>>
Get(dict, k) == IF Has(dict, k) THEN <<dict[k]>> ELSE <<>>
\* del dict[k]
Del(dict, k) == [x \in (DOMAIN dict) \ {k} |-> dict[x]]

\* datetime.now() at the instants the model samples, as seconds since
\* midnight: 10:04:59, 10:05:00
Instants == <<36299, 36300>>
NowTime == Instants[now]

\* SecuritySystemConfig()  (main.py 47-51, 78)
DefaultConfig == [continuous_recording |-> TRUE, motion_detection |-> TRUE]
\* self.config.continuous_recording, self.config.motion_detection
ContinuousRecording == config.continuous_recording
MotionDetectionEnabled == config.motion_detection
RecordingSegmentMinutes == 5

\* The open writers when self.video_writers holds every writer there is
OpenOf(writers) == [d \in DOMAIN writers |-> IF writers[d].opened THEN 1 ELSE 0]
\* ThreadPoolExecutor(max_workers=2)  (motion_detector.py 72)
MaxWorkers == 2

\* A camera frame: JPEG payload number n, its picture data the byte 64 + n
GoodJpeg(n) == SOI \o <<64 + n>> \o EOI
\* The same without the start marker, without the end marker, and with
\* both markers around data the codec rejects
NoSoiJpeg(n) == <<64 + n>> \o EOI
NoEoiJpeg(n) == SOI \o <<64 + n>>
CorruptJpeg(n) == SOI \o <<0, 64 + n>> \o EOI
Payloads(n) == {GoodJpeg(n), NoSoiJpeg(n), NoEoiJpeg(n), CorruptJpeg(n)}

\* A frame of camera d: payload number n, cam2's numbered from 16 on, so
\* that no payload of one camera is a payload of the other
CameraJpeg(d, n) == GoodJpeg(IF d = "cam1" THEN n ELSE 16 + n)
CameraCorruptJpeg(d, n) == CorruptJpeg(IF d = "cam1" THEN n ELSE 16 + n)

\* The start-marker test left out of the validation.
ValidJpegMarkersEndOnly(frame_data) == EndsWith(frame_data, EOI)

\* lines 169 and 450: frame_data.startswith(b'\xff\xd8') and
\* frame_data.endswith(b'\xff\xd9')
ValidJpegMarkers(frame_data) == StartsWith(frame_data, SOI) /\ EndsWith(frame_data, EOI)

\* cv2.imdecode's result (main.py 183-184): the picture between the markers
ImDecode(data) == PySlice(data, 2, Len(data) - 2)

\* Device(device_id, type, last_seen=now)  (main.py 28-34, 314-318)
NewDevice ==
    [alias |-> <<>>, type |-> "ESP32-CAM", last_seen |-> NowTime, status |-> "online",
     motion_detection |-> FALSE]

\* MotionDetector.__init__  (motion_detector.py 61-73); appended and
\* submitted are histories: every frame appended to frame_buffer, and every
\* snapshot handed to executor.submit, in order
NewDetector ==
    [frame_buffer |-> <<>>, motion_frames |-> <<>>, frame_count |-> 0,
     lock |-> Free, queue |-> <<>>, running |-> <<>>, executor_shutdown |-> FALSE,
     appended |-> <<>>, submitted |-> <<>>]

IdleLoc ==
    [d |-> "cam1", data |-> <<>>, alias |-> "", flag |-> FALSE, frames_copy |-> <<>>,
     motion_frames_copy |-> <<>>, ret |-> "idle", todo |-> {}, result |-> <<>>,
     events |-> <<>>, config |-> DefaultConfig]

\* The system as constructed with no devices.json  (main.py 71-99)
SystemIdle ==
    /\ frames = EmptyDict
    /\ devices = EmptyDict
    /\ sys_lock = Free
    /\ video_writers = EmptyDict
    /\ last_video_time = EmptyDict
    /\ frame_counters = EmptyDict
    /\ motion_detectors = EmptyDict
    /\ motion_detected = EmptyDict
    /\ annotated_frames = EmptyDict
    /\ clips = EmptyDict
    /\ now = 1
    /\ shutting_down = FALSE
    /\ next_frame = 1
    /\ accepted = EmptyDict
    /\ retired = <<>>
    /\ discarded = {}
    /\ config = DefaultConfig
    /\ open_writers = OpenOf(video_writers)
    /\ pc = [t \in Tasks \cup {Main} |-> "idle"]
    /\ loc = [t \in Tasks \cup {Main} |-> IdleLoc]

UploadIdle ==
    /\ request = [device |-> "cam1", content_type |-> <<>>, body |-> <<>>,
                  parts |-> <<>>, before |-> "unknown"]
    /\ up_pc = "none"
    /\ up_pos = 0
    /\ up_buffer = <<>>
    /\ up_boundary = <<>>
    /\ up_emitted = <<>>
    /\ up_last_carve = <<>>
    /\ up_response = <<>>

\* No handler of another endpoint runs.  A handler's record: its name, its
\* position, the arguments of the request (an absent or None value is <<>>,
\* a value v is <<v>>), what the method it called returned, the generator's
\* locals and what it has yielded,
\* whether the device was registered when the request came (a history), and
\* the response (<<>> while none)
EndpointIdle ==
    [handler |-> "none", at |-> "none", device_id |-> <<>>, device_type |-> <<>>,
     alias |-> <<>>, limit |-> <<>>, frame_count |-> 0, frame_data |-> <<>>,
     returned |-> <<>>, yielded |-> <<>>, known |-> FALSE, response |-> <<>>]
EndpointsIdle == endpoint = [t \in Tasks |-> EndpointIdle]

\* No bucket computation in progress
BucketsIdle ==
    /\ bucket_in = [first |-> 0, second |-> 0, minutes |-> RecordingSegmentMinutes]
    /\ bucket_out = <<>>

RangesIdle ==
    /\ motion_frames_arg = <<>>
    /\ rpc = "none"
    /\ ranges = <<>>
    /\ merged_ranges = <<>>
    /\ remerged_ranges = <<>>

-----------------------------------------------------------------------------
(* The wall clock *)

Tick ==
    /\ now < Len(Instants)
    /\ now' = now + 1
    /\ UNCHANGED <<rvars, hvars, uvars, store_vars, sys_lock, recorder_vars, motion_vars,
                   clips, shutting_down, next_frame, accepted, retired, pc, loc>>

-----------------------------------------------------------------------------
(* SecuritySystem.update_frame  (main.py 165-199), task t *)

\* return from update_frame: the with block releases self.lock, and the
\* call's locals are gone
Return(t) ==
    /\ sys_lock' = Free
    /\ pc' = [pc EXCEPT ![t] = "idle"]
    /\ loc' = [loc EXCEPT ![t] = IdleLoc]

\* line 167: with self.lock.  The calls are ordered by their acquisitions of
\* the lock: this call is now the latest, and accepted if line 169 will pass
\* its payload
UF_Lock(t) ==
    /\ pc[t] = "uf_lock"
    /\ sys_lock = Free
    /\ sys_lock' = t
    /\ pc' = [pc EXCEPT ![t] = "uf_store"]
    /\ accepted' = IF StartsWith(loc[t].data, SOI) /\ EndsWith(loc[t].data, EOI)
                   THEN Put(accepted, loc[t].d, loc[t].data)
                   ELSE accepted
    /\ UNCHANGED <<rvars, hvars, uvars, store_vars, recorder_vars, motion_vars, clips, now,
                   shutting_down, next_frame, retired, loc>>

\* lines 169-188: validate, store the raw frame, update the device, decode
UF_Store(t) ==
    /\ pc[t] = "uf_store"
    /\ LET d == loc[t].d
           frame_data == loc[t].data
       IN  IF ~ValidJpegMarkers(frame_data)
           THEN Return(t) /\ UNCHANGED <<frames, devices>>
           ELSE /\ frames' = Put(frames, d, frame_data)
                /\ IF ~Has(devices, d)
                   THEN Return(t) /\ UNCHANGED devices
                   ELSE /\ devices' = [devices EXCEPT ![d].last_seen = NowTime,
                                                     ![d].status = "online"]
                        /\ IF ~ImDecodes(frame_data)
                           THEN Return(t)
                           ELSE /\ pc' = [pc EXCEPT ![t] = "uf_record"]
                                /\ UNCHANGED <<sys_lock, loc>>
    /\ UNCHANGED <<rvars, hvars, uvars, recorder_vars, motion_vars, clips, now,
                   shutting_down, next_frame, accepted, retired>>

\* The minute kept as it is, not rounded down.
CurrentVideoTimeNoRound(t, n) == <<t \div 3600, (t % 3600) \div 60>>

\* lines 210-213: now with seconds dropped and the minute rounded down to a
\* multiple of recording_segment_minutes, as <<hour, minute>>
CurrentVideoTime(t, n) ==
    LET hour == t \div 3600
        minute == (t % 3600) \div 60
    IN  <<hour, (minute \div n) * n>>

\* cv2.VideoWriter(...): opened is what isOpened() answers
NewWriter(opened, bucket) == [opened |-> opened, bucket |-> bucket, written |-> 0]

\* The writers of device d that are open
OpenWriters(d) == IF Has(open_writers, d) THEN open_writers[d] ELSE 0

\* The release left out: the writer in use stays open when it is replaced.
AfterNoRelease(open, writer) == open

\* lines 218-219: the device's writer, if it has one, is released; writer is
\* self.video_writers.get(device_id) as <<>> or <<w>>
AfterRelease(open, writer) ==
    IF writer # <<>> /\ writer[1].opened THEN open - 1 ELSE open

\* The isOpened() test left out: the frame is written to any writer.
WriteFrameUnchecked(writer) == [writer EXCEPT !.written = @ + 1]

\* lines 240-241 and 256-257: the frame is written if the writer is open
WriteFrame(writer) ==
    IF writer.opened THEN [writer EXCEPT !.written = @ + 1] ELSE writer

\* The outcomes of lines 203-213, which run before the try of line 215:
\* TRUE when device_dir.mkdir and the bucket computation succeed, FALSE when
\* one of them raises
PreparedOutcomes == BOOLEAN

\* lines 190-192 and process_continuous_recording (201-271).  prepared is
\* the outcome of lines 203-213: an exception there leaves the method, is
\* caught at line 198 of update_frame, and the call returns.  open1 and
\* open2 are whether the writer created at line 231, and the one recreated
\* at line 252, open.
UF_Record(t) ==
    /\ pc[t] = "uf_record"
    /\ LET d == loc[t].d
           current_video_time == CurrentVideoTime(NowTime, RecordingSegmentMinutes)
           rotate == ~Has(last_video_time, d) \/ last_video_time[d] # current_video_time
       IN  IF ~ContinuousRecording
           THEN /\ UNCHANGED <<recorder_vars, open_writers, sys_lock, loc>>
                /\ pc' = [pc EXCEPT ![t] = "uf_motion"]
           ELSE \E prepared \in PreparedOutcomes :
                IF ~prepared
                THEN /\ Return(t)
                     /\ UNCHANGED recorder_vars
                     /\ UNCHANGED open_writers
                ELSE
                /\ pc' = [pc EXCEPT ![t] = "uf_motion"]
                /\ UNCHANGED sys_lock
                /\ \E open1 \in (IF rotate THEN BOOLEAN ELSE {TRUE}) :
                   LET writers1 == IF rotate
                                   THEN Put(video_writers, d, NewWriter(open1, current_video_time))
                                   ELSE video_writers
                       reopen == Has(writers1, d) /\ ~writers1[d].opened
                   IN  \E open2 \in (IF reopen THEN BOOLEAN ELSE {TRUE}) :
                       LET writer2 == IF reopen THEN NewWriter(open2, current_video_time)
                                      ELSE writers1[d]
                       IN  /\ video_writers' =
                                 IF Has(writers1, d)
                                 THEN Put(writers1, d, WriteFrame(writer2))
                                 ELSE writers1
                           /\ last_video_time' =
                                 IF rotate THEN Put(last_video_time, d, current_video_time)
                                 ELSE last_video_time
                           /\ frame_counters' =
                                 Put(frame_counters, d,
                                     (IF Has(frame_counters, d) THEN frame_counters[d] ELSE 0) + 1)
                           /\ loc' = [loc EXCEPT ![t].events =
                                 (IF rotate /\ Has(video_writers, d)
                                  THEN <<"release">> ELSE <<>>)
                                 \o (IF rotate THEN <<"create">> ELSE <<>>)
                                 \o (IF reopen THEN <<"recreate">> ELSE <<>>)
                                 \o (IF Has(writers1, d) /\ writer2.opened
                                     THEN <<"write">> ELSE <<>>)
                                 \o <<"count">>]
                           /\ open_writers' =
                                 Put(open_writers, d,
                                     (IF rotate
                                      THEN AfterRelease(OpenWriters(d), Get(video_writers, d))
                                      ELSE OpenWriters(d))
                                     + (IF rotate /\ open1 THEN 1 ELSE 0)
                                     + (IF reopen /\ open2 THEN 1 ELSE 0))
    /\ UNCHANGED <<rvars, config, discarded, uvars, store_vars, motion_vars, clips, now,
                   shutting_down, next_frame, accepted, retired>>

\* lines 194-196 and process_motion_detection 275-278, then process_frame
\* 284-291: the detection capability answers current_motion
\* The system-wide setting left out: the device's flag alone decides.
MotionProcessedByFlag(d) == devices[d].motion_detection

\* line 195: self.config.motion_detection and the device's motion_detection
MotionProcessed(d) == MotionDetectionEnabled /\ devices[d].motion_detection

UF_Motion(t) ==
    /\ pc[t] = "uf_motion"
    /\ LET d == loc[t].d IN
       IF MotionProcessed(d)
       THEN /\ motion_detectors' = IF Has(motion_detectors, d) THEN motion_detectors
                                   ELSE Put(motion_detectors, d, NewDetector)
            /\ \E current_motion \in BOOLEAN :
                   loc' = [loc EXCEPT ![t].flag = current_motion]
            /\ pc' = [pc EXCEPT ![t] = "pf_lock"]
            /\ UNCHANGED sys_lock
       ELSE /\ Return(t)
            /\ UNCHANGED motion_detectors
    /\ UNCHANGED <<rvars, hvars, uvars, store_vars, recorder_vars, motion_detected,
                   annotated_frames, clips, now, shutting_down, next_frame, accepted, retired>>

-----------------------------------------------------------------------------
(* MotionDetector.process_frame  (motion_detector.py 273-347), task t *)

\* line 294: with self.lock
PF_Lock(t) ==
    /\ pc[t] = "pf_lock"
    /\ motion_detectors[loc[t].d].lock = Free
    /\ motion_detectors' = [motion_detectors EXCEPT ![loc[t].d].lock = t]
    /\ pc' = [pc EXCEPT ![t] = "pf_append"]
    /\ UNCHANGED <<rvars, hvars, uvars, store_vars, sys_lock, recorder_vars, motion_detected,
                   annotated_frames, clips, now, shutting_down, next_frame, accepted, retired, loc>>

\* The snapshots not copied: the list of the newest queued ClipTask is the
\* live buffer, and grows with it.
AppendFrameShared(det, frame, current_motion) ==
    [det EXCEPT !.frame_buffer = Append(@, frame),
                !.motion_frames = Append(@, current_motion),
                !.frame_count = @ + 1,
                !.appended = Append(@, frame),
                !.lock = Free,
                !.queue = IF @ = <<>> THEN @
                          ELSE [@ EXCEPT ![Len(@)].frames = Append(@, frame),
                                         ![Len(@)].motion_frames = Append(@, current_motion)]]

\* lines 295-297: the frame and its flag go to the live buffer only
AppendFrame(det, frame, current_motion) ==
    [det EXCEPT !.frame_buffer = Append(@, frame),
                !.motion_frames = Append(@, current_motion),
                !.frame_count = @ + 1,
                !.appended = Append(@, frame),
                !.lock = Free]

\* lines 295-297, and the lock released
PF_Append(t) ==
    /\ pc[t] = "pf_append"
    /\ LET d == loc[t].d
           frame == ImDecode(loc[t].data)
       IN  motion_detectors' =
               [motion_detectors EXCEPT ![d] = AppendFrame(@, frame, loc[t].flag)]
    /\ pc' = [pc EXCEPT ![t] = "pf_check"]
    /\ UNCHANGED <<rvars, hvars, uvars, store_vars, sys_lock, recorder_vars, motion_detected,
                   annotated_frames, clips, now, shutting_down, next_frame, accepted, retired, loc>>

\* The hand-off started one frame late.
SegmentFullLate(frame_count) == frame_count > SegmentFrames

\* line 344: self.frame_count >= self.segment_frames
SegmentFull(frame_count) == frame_count >= SegmentFrames

\* lines 344-345
PF_Check(t) ==
    /\ pc[t] = "pf_check"
    /\ IF SegmentFull(motion_detectors[loc[t].d].frame_count)
       THEN /\ pc' = [pc EXCEPT ![t] = "pcs_lock"]
            /\ loc' = [loc EXCEPT ![t].ret = "pmd_store"]
       ELSE /\ pc' = [pc EXCEPT ![t] = "pmd_store"]
            /\ UNCHANGED loc
    /\ UNCHANGED <<rvars, hvars, uvars, store_vars, sys_lock, recorder_vars, motion_vars,
                   clips, now, shutting_down, next_frame, accepted, retired>>

-----------------------------------------------------------------------------
(* MotionDetector._process_current_segment  (motion_detector.py 349-365) *)

\* line 351: with self.lock
PCS_Lock(t) ==
    /\ pc[t] = "pcs_lock"
    /\ motion_detectors[loc[t].d].lock = Free
    /\ motion_detectors' = [motion_detectors EXCEPT ![loc[t].d].lock = t]
    /\ pc' = [pc EXCEPT ![t] = "pcs_swap"]
    /\ UNCHANGED <<rvars, hvars, uvars, store_vars, sys_lock, recorder_vars, motion_detected,
                   annotated_frames, clips, now, shutting_down, next_frame, accepted, retired, loc>>

\* The reset of the buffers left out: the live buffer keeps its frames.
SwappedOutKeep(det) == [det EXCEPT !.lock = Free]

\* The lock kept after the swap: the submission is made inside the with block.
SwappedOutHolding(det) ==
    [det EXCEPT !.frame_buffer = <<>>, !.motion_frames = <<>>, !.frame_count = 0]

\* lines 357-359, and the lock released
SwappedOut(det) ==
    [det EXCEPT !.frame_buffer = <<>>, !.motion_frames = <<>>, !.frame_count = 0,
                !.lock = Free]

\* lines 353-359
PCS_Swap(t) ==
    /\ pc[t] = "pcs_swap"
    /\ LET d == loc[t].d IN
       /\ loc' = [loc EXCEPT ![t].frames_copy = motion_detectors[d].frame_buffer,
                             ![t].motion_frames_copy = motion_detectors[d].motion_frames]
       /\ motion_detectors' = [motion_detectors EXCEPT ![d] = SwappedOut(@)]
    /\ pc' = [pc EXCEPT ![t] = "pcs_submit"]
    /\ UNCHANGED <<rvars, hvars, uvars, store_vars, sys_lock, recorder_vars, motion_detected,
                   annotated_frames, clips, now, shutting_down, next_frame, accepted, retired>>

\* lines 362-365: the ClipTask, labelled with the time of the hand-off
ClipTask(t) ==
    [frames |-> loc[t].frames_copy, motion_frames |-> loc[t].motion_frames_copy,
     timestamp |-> NowTime]

\* line 365: executor.submit; on an executor already shut down it raises
\* RuntimeError, which process_motion_detection (main.py 297) and cleanup
\* (main.py 376) catch
PCS_Submit(t) ==
    /\ pc[t] = "pcs_submit"
    /\ LET d == loc[t].d IN
       IF motion_detectors[d].executor_shutdown
       THEN /\ pc' = [pc EXCEPT ![t] = IF loc[t].ret = "pmd_store" THEN "uf_unlock"
                                       ELSE loc[t].ret]
            /\ UNCHANGED motion_detectors
       ELSE /\ motion_detectors' =
                   [motion_detectors EXCEPT ![d].queue = Append(@, ClipTask(t)),
                                            ![d].submitted = Append(@, loc[t].frames_copy)]
            /\ pc' = [pc EXCEPT ![t] = loc[t].ret]
    /\ loc' = [loc EXCEPT ![t].frames_copy = <<>>, ![t].motion_frames_copy = <<>>]
    /\ UNCHANGED <<rvars, hvars, uvars, store_vars, sys_lock, recorder_vars, motion_detected,
                   annotated_frames, clips, now, shutting_down, next_frame, accepted, retired>>

-----------------------------------------------------------------------------
(* process_motion_detection, after process_frame returns  (main.py 283-295) *)

PMD_Store(t) ==
    /\ pc[t] = "pmd_store"
    /\ LET d == loc[t].d IN
       /\ motion_detected' = Put(motion_detected, d, loc[t].flag)
       /\ annotated_frames' =
              Put(annotated_frames, d, [of |-> loc[t].data, motion |-> loc[t].flag])
    /\ pc' = [pc EXCEPT ![t] = "uf_unlock"]
    /\ UNCHANGED <<rvars, hvars, uvars, store_vars, sys_lock, recorder_vars, motion_detectors,
                   clips, now, shutting_down, next_frame, accepted, retired, loc>>

\* update_frame returns: the with block of line 167 ends
UF_Unlock(t) ==
    /\ pc[t] = "uf_unlock"
    /\ Return(t)
    /\ UNCHANGED <<rvars, hvars, uvars, store_vars, recorder_vars, motion_vars, clips, now,
                   shutting_down, next_frame, accepted, retired>>

\* The steps of update_frame and of what it calls
UpdateFrameStep(t) ==
    \/ UF_Lock(t) \/ UF_Store(t) \/ UF_Record(t) \/ UF_Motion(t)
    \/ PF_Lock(t) \/ PF_Append(t) \/ PF_Check(t)
    \/ PCS_Lock(t) \/ PCS_Swap(t) \/ PCS_Submit(t)
    \/ PMD_Store(t) \/ UF_Unlock(t)

-----------------------------------------------------------------------------
(* The detector's worker pool: process_segment  (motion_detector.py 160-182) *)

\* The range without its last frame: range(start_idx, end_idx).
ClipFramesExclusive(fs, start_idx, end_idx) ==
    IF fs = <<>> \/ start_idx >= Len(fs) \/ start_idx > end_idx
    THEN <<>>
    ELSE Slice(fs, start_idx, Min(end_idx, Len(fs)))

\* _create_motion_clip (239-271): the frames written to the clip file, or
\* <<>> when the range is rejected at line 249
ClipFrames(fs, start_idx, end_idx) ==
    IF fs = <<>> \/ start_idx >= Len(fs) \/ start_idx > end_idx
    THEN <<>>
    ELSE Slice(fs, start_idx, Min(end_idx + 1, Len(fs)))

\* process_segment (160-182): the clip files it writes, as a dict from
\* <<device, timestamp, clip number>> to the frames of the clip
SegmentClips(d, task) ==
    IF ~AnyTrue(task.motion_frames)
    THEN EmptyDict
    ELSE LET motion_ranges ==
                 _find_motion_ranges(task.motion_frames, buffer_frames, min_recording_frames)
             written == {i \in 1..Len(motion_ranges) :
                           ClipFrames(task.frames, motion_ranges[i][1], motion_ranges[i][2]) # <<>>}
         IN  [k \in {<<d, task.timestamp, i>> : i \in written} |->
                 ClipFrames(task.frames, motion_ranges[k[3]][1], motion_ranges[k[3]][2])]

\* dict.update
Update(dict, other) ==
    [k \in (DOMAIN dict) \cup (DOMAIN other) |->
        IF k \in DOMAIN other THEN other[k] ELSE dict[k]]

\* Remove the element at position i of a list
RemoveAt(xs, i) == SubSeq(xs, 1, i - 1) \o SubSeq(xs, i + 1, Len(xs))

\* A free worker of the pool takes the oldest queued task
WorkerStart(d) ==
    /\ Has(motion_detectors, d)
    /\ motion_detectors[d].queue # <<>>
    /\ Len(motion_detectors[d].running) < MaxWorkers
    /\ motion_detectors' =
           [motion_detectors EXCEPT ![d].running = Append(@, Head(motion_detectors[d].queue)),
                                    ![d].queue = Tail(@)]
    /\ UNCHANGED <<rvars, hvars, uvars, store_vars, sys_lock, recorder_vars, motion_detected,
                   annotated_frames, clips, now, shutting_down, next_frame, accepted, retired, pc, loc>>

\* A worker runs process_segment to its end
WorkerFinish(d) ==
    /\ Has(motion_detectors, d)
    /\ \E i \in 1..Len(motion_detectors[d].running) :
          /\ clips' = Update(clips, SegmentClips(d, motion_detectors[d].running[i]))
          /\ motion_detectors' = [motion_detectors EXCEPT ![d].running = RemoveAt(@, i)]
    /\ UNCHANGED <<rvars, hvars, uvars, store_vars, sys_lock, recorder_vars, motion_detected,
                   annotated_frames, now, shutting_down, next_frame, accepted, retired, pc, loc>>

-----------------------------------------------------------------------------
(* SecuritySystem.cleanup  (main.py 360-382), run by the shutdown event *)

\* The server runs its shutdown event once no request is in progress.
\* line 362: with self.lock
CL_Lock ==
    /\ pc[Main] = "idle"
    /\ \A t \in Callers : pc[t] = "idle"
    /\ up_pc \in {"none", "done"}
    /\ sys_lock = Free
    /\ sys_lock' = Main
    /\ shutting_down' = TRUE
    /\ pc' = [pc EXCEPT ![Main] = "cl_writers"]
    /\ UNCHANGED <<rvars, hvars, uvars, store_vars, recorder_vars, motion_vars, clips, now,
                   next_frame, accepted, retired, loc>>

\* lines 364-367: release every open writer
CL_Writers ==
    /\ pc[Main] = "cl_writers"
    /\ video_writers' = [d \in DOMAIN video_writers |->
                            [video_writers[d] EXCEPT !.opened = FALSE]]
    /\ open_writers' =
           [d \in DOMAIN open_writers |->
               AfterRelease(open_writers[d], Get(video_writers, d))]
    /\ loc' = [loc EXCEPT ![Main].todo = DOMAIN motion_detectors]
    /\ pc' = [pc EXCEPT ![Main] = "cl_next"]
    /\ UNCHANGED <<rvars, config, discarded, uvars, store_vars, sys_lock, last_video_time, frame_counters,
                   motion_vars, clips, now, shutting_down, next_frame, accepted, retired>>

\* The flush left out: cleanup goes straight to the executor's shutdown.
FlushSkipped == "cl_shutdown"

\* lines 372-374: cleanup calls detector._process_current_segment()
FlushEntry == "pcs_lock"

\* line 370: the next detector of the loop, or the end of cleanup
CL_Next ==
    /\ pc[Main] = "cl_next"
    /\ IF loc[Main].todo = {}
       THEN /\ sys_lock' = Free
            /\ pc' = [pc EXCEPT ![Main] = "done"]
            /\ UNCHANGED loc
       ELSE /\ \E d \in loc[Main].todo :
                  loc' = [loc EXCEPT ![Main].d = d, ![Main].ret = "cl_shutdown"]
            /\ pc' = [pc EXCEPT ![Main] = FlushEntry]
            /\ UNCHANGED sys_lock
    /\ UNCHANGED <<rvars, hvars, uvars, store_vars, recorder_vars, motion_vars, clips, now,
                   shutting_down, next_frame, accepted, retired>>

\* line 381: detector.executor.shutdown(wait=True) refuses new tasks ...
CL_Shutdown ==
    /\ pc[Main] = "cl_shutdown"
    /\ motion_detectors' = [motion_detectors EXCEPT ![loc[Main].d].executor_shutdown = TRUE]
    /\ pc' = [pc EXCEPT ![Main] = "cl_wait"]
    /\ UNCHANGED <<rvars, hvars, uvars, store_vars, sys_lock, recorder_vars, motion_detected,
                   annotated_frames, clips, now, shutting_down, next_frame, accepted, retired, loc>>

\* shutdown(wait=False): the call returns whatever the pool still holds.
DrainedNoWait(det) == TRUE

\* wait=True: the workers are joined, so no task is queued or running
Drained(det) == det.queue = <<>> /\ det.running = <<>>

\* ... and returns once every task handed to the pool has finished
CL_Wait ==
    /\ pc[Main] = "cl_wait"
    /\ Drained(motion_detectors[loc[Main].d])
    /\ loc' = [loc EXCEPT ![Main].todo = @ \ {loc[Main].d}]
    /\ pc' = [pc EXCEPT ![Main] = "cl_next"]
    /\ UNCHANGED <<rvars, hvars, uvars, store_vars, sys_lock, recorder_vars, motion_vars,
                   clips, now, shutting_down, next_frame, accepted, retired>>

CleanupStep ==
    \/ CL_Lock \/ CL_Writers \/ CL_Next \/ CL_Shutdown \/ CL_Wait
    \/ PCS_Lock(Main) \/ PCS_Swap(Main) \/ PCS_Submit(Main)

-----------------------------------------------------------------------------
(* Callers of update_frame: the upload handler's lines 428-430 and 460/575 *)

\* register_device  (main.py 310-322), the whole with block
RegisterDevice(d) ==
    devices' = IF ~Has(devices, d)
               THEN Put(devices, d, NewDevice)
               ELSE [devices EXCEPT ![d].last_seen = NowTime, ![d].status = "online"]

\* A camera uploads frame_data for device d; the handler registers an
\* unknown device (lines 429-430) and calls update_frame (line 460 or 575),
\* which it does only for a payload with both markers that decodes
Upload(t, d, frame_data) ==
    /\ pc[t] = "idle"
    /\ ~shutting_down
    /\ next_frame <= MaxFrames
    /\ sys_lock = Free
    /\ IF ~Has(devices, d) THEN RegisterDevice(d) ELSE UNCHANGED devices
    /\ next_frame' = next_frame + 1
    /\ loc' = [loc EXCEPT ![t].d = d, ![t].data = frame_data]
    /\ pc' = [pc EXCEPT ![t] = "uf_lock"]
    /\ UNCHANGED <<rvars, hvars, uvars, frames, sys_lock, recorder_vars, motion_vars, clips,
                   now, shutting_down, accepted, retired>>

-----------------------------------------------------------------------------
(* Spec: cameras uploading to the system, its worker pools, its shutdown *)

\* The registry read from devices.json at construction (main.py 80, 96-99):
\* cam1 is registered with motion detection on, so its detector exists;
\* cam2 is unknown until its first upload
RegisteredAt(i, md) ==
    [alias |-> <<>>, type |-> "ESP32-CAM", last_seen |-> Instants[i], status |-> "online",
     motion_detection |-> md]

Init ==
    /\ RangesIdle
    /\ BucketsIdle
    /\ buffer_frames = ClipBufferFrames
    /\ min_recording_frames = ClipMinFrames
    /\ UploadIdle
    /\ EndpointsIdle
    /\ frames = EmptyDict
    /\ devices = Put(EmptyDict, "cam1", RegisteredAt(1, TRUE))
    /\ sys_lock = Free
    /\ video_writers = EmptyDict
    /\ last_video_time = EmptyDict
    /\ frame_counters = EmptyDict
    /\ motion_detectors = [d \in {x \in DOMAIN devices : devices[x].motion_detection} |-> NewDetector]
    /\ motion_detected = EmptyDict
    /\ annotated_frames = EmptyDict
    /\ clips = EmptyDict
    /\ now = 1
    /\ shutting_down = FALSE
    /\ next_frame = 1
    /\ accepted = EmptyDict
    /\ retired = <<>>
    /\ discarded = {}
    /\ config = DefaultConfig
    /\ open_writers = OpenOf(video_writers)
    /\ pc = [t \in Tasks \cup {Main} |-> "idle"]
    /\ loc = [t \in Tasks \cup {Main} |-> IdleLoc]

Next ==
    \/ \E t \in Callers, d \in Devices : Upload(t, d, CameraJpeg(d, next_frame))
    \/ \E t \in Callers : UpdateFrameStep(t)
    \/ \E d \in Devices : WorkerStart(d)
    \/ \E d \in Devices : WorkerFinish(d)
    \/ CleanupStep
    \/ Tick

Spec == Init /\ [][Next]_vars

-----------------------------------------------------------------------------
(* upload_stream  (main.py 420-611): one request, handled on task Handler *)

Handler == "t1"

\* lines 499-504: the boundary parameter of the content type, with b"--" in
\* front, or <<>> (None) when no parameter starts with 'boundary='
RECURSIVE BoundaryOf(_)
BoundaryOf(parts) ==
    IF parts = <<>> THEN <<>>
    ELSE LET part == Strip(parts[1], Whitespace) IN
         IF StartsWith(part, BoundaryParam)
         THEN DashDash \o Strip(PySliceFrom(part, 9), {34})
         ELSE BoundaryOf(Tail(parts))
ParseBoundary(content_type) == BoundaryOf(Split(content_type, <<59>>))

\* The response: <<>> while the handler runs, then the returned dict
Respond(status, message, motion) ==
    << [status |-> status, message |-> message, motion |-> motion] >>

\* lines 463-465, 585-587
MotionStatus(d) ==
    IF Has(motion_detected, d)
    THEN (IF motion_detected[d] THEN "active" ELSE "inactive")
    ELSE "unknown"

\* The call system.update_frame(device_id, data) of lines 460 and 575: the
\* handler continues when the call has returned
CallUpdateFrame(data) ==
    /\ up_emitted' = Append(up_emitted, data)
    /\ loc' = [loc EXCEPT ![Handler].d = request.device, ![Handler].data = data]
    /\ pc' = [pc EXCEPT ![Handler] = "uf_lock"]

\* lines 426-436, then the branch on the content type and, for multipart,
\* the boundary of lines 495-510
UploadBegin ==
    /\ up_pc = "start"
    /\ sys_lock = Free
    /\ IF ~Has(devices, request.device) THEN RegisterDevice(request.device)
       ELSE UNCHANGED devices
    /\ LET content_type == Lower(request.content_type) IN
       IF Contains(content_type, ImageJpeg)
       THEN /\ up_pc' = "raw"
            /\ UNCHANGED <<up_boundary, up_response>>
       ELSE IF Contains(content_type, MultipartFormData)
       THEN /\ up_boundary' = ParseBoundary(content_type)
            /\ IF up_boundary' = <<>>
               THEN /\ up_response' = Respond("error", "missing boundary", "")
                    /\ up_pc' = "done"
               ELSE /\ up_pc' = "stream"
                    /\ UNCHANGED up_response
       ELSE /\ up_response' = Respond("error", "unsupported content-type", "")
            /\ up_pc' = "done"
            /\ UNCHANGED up_boundary
    /\ UNCHANGED <<rvars, hvars, endpoint, request, up_pos, up_buffer, up_emitted, up_last_carve,
                   frames, sys_lock, recorder_vars, motion_vars, clips, now,
                   shutting_down, next_frame, accepted, retired, pc, loc>>

\* lines 443-484: the raw body, validated and handed to update_frame
RawBody ==
    /\ up_pc = "raw"
    /\ LET raw_data == request.body IN
       IF Len(raw_data) < 2
       THEN /\ up_response' = Respond("error", "empty or invalid image data", "")
            /\ up_pc' = "done"
            /\ UNCHANGED <<up_emitted, pc, loc>>
       ELSE IF ~ValidJpegMarkers(raw_data)
       THEN /\ up_response' = Respond("error", "missing JPEG markers", "")
            /\ up_pc' = "done"
            /\ UNCHANGED <<up_emitted, pc, loc>>
       ELSE IF ~ImDecodes(raw_data)
       THEN /\ up_response' = Respond("error", "unable to decode", "")
            /\ up_pc' = "done"
            /\ UNCHANGED <<up_emitted, pc, loc>>
       ELSE /\ CallUpdateFrame(raw_data)
            /\ up_pc' = "raw_respond"
            /\ UNCHANGED up_response
    /\ up_pos' = Len(request.body)
    /\ UNCHANGED <<rvars, hvars, endpoint, request, up_buffer, up_boundary, up_last_carve, store_vars,
                   sys_lock, recorder_vars, motion_vars, clips, now, shutting_down,
                   next_frame, accepted, retired>>

\* lines 462-472, once update_frame has returned
RawRespond ==
    /\ up_pc = "raw_respond"
    /\ pc[Handler] = "idle"
    /\ up_response' = Respond("success", "JPEG frame received", MotionStatus(request.device))
    /\ up_pc' = "done"
    /\ UNCHANGED <<rvars, hvars, svars, endpoint, request, up_pos, up_buffer, up_boundary, up_emitted,
                   up_last_carve>>

\* The sizes of the next chunk: up to MaxChunk bytes, or all that is left
ChunkSizes == (1..MaxChunk) \cup {Len(request.body) - up_pos}

\* lines 514-515: request.stream() delivers the next n bytes of the body
RecvChunk(n) ==
    /\ up_pc = "stream"
    /\ n >= 1
    /\ up_pos + n <= Len(request.body)
    /\ up_buffer' = up_buffer \o SubSeq(request.body, up_pos + 1, up_pos + n)
    /\ up_pos' = up_pos + n
    /\ up_pc' = "scan"
    /\ UNCHANGED <<rvars, hvars, svars, endpoint, request, up_boundary, up_emitted, up_last_carve,
                   up_response>>

\* lines 518-563, an iteration of the while loop that ends at a break
ScanBreak ==
    /\ up_pc = "scan"
    /\ pc[Handler] = "idle"
    /\ ScanIteration(up_buffer, up_boundary).wait
    /\ up_pc' = "stream"
    /\ UNCHANGED <<rvars, hvars, svars, endpoint, request, up_pos, up_buffer, up_boundary, up_emitted,
                   up_last_carve, up_response>>

\* lines 518-582, an iteration that carves a part: the buffer is cut, and
\* the part's JPEG, if it has one that decodes, goes to update_frame
ScanCarve ==
    /\ up_pc = "scan"
    /\ pc[Handler] = "idle"
    /\ LET it == ScanIteration(up_buffer, up_boundary) IN
       /\ ~it.wait
       /\ up_buffer' = it.rest
       /\ up_last_carve' = << [before |-> Len(up_buffer), after |-> Len(it.rest),
                               pos |-> up_pos] >>
       /\ IF HasJpegMarkers(it.frame_data) /\ ImDecodes(JpegData(it.frame_data))
          THEN CallUpdateFrame(JpegData(it.frame_data))
          ELSE UNCHANGED <<up_emitted, pc, loc>>
    /\ UNCHANGED <<rvars, hvars, endpoint, request, up_pc, up_pos, up_boundary, up_response, store_vars,
                   sys_lock, recorder_vars, motion_vars, clips, now, shutting_down,
                   next_frame, accepted, retired>>

\* lines 584-594: the stream has ended
StreamEnd ==
    /\ up_pc = "stream"
    /\ up_pos = Len(request.body)
    /\ up_response' = Respond("success", "multipart stream processed",
                              MotionStatus(request.device))
    /\ up_pc' = "done"
    /\ UNCHANGED <<rvars, hvars, svars, endpoint, request, up_pos, up_buffer, up_boundary, up_emitted,
                   up_last_carve>>

-----------------------------------------------------------------------------
(* SpecUpload: the requests enumerated *)

\* "image/jpeg"
CTRaw == ImageJpeg
\* "multipart/form-data; boundary=f"
CTMultipart == MultipartFormData \o <<59, 32>> \o BoundaryParam \o <<102>>
\* "multipart/form-data"
CTNoBoundary == MultipartFormData
\* "multipart/x-mixed-replace; boundary=f"
CTMixedReplace ==
    <<109, 117, 108, 116, 105, 112, 97, 114, 116, 47, 120, 45, 109, 105, 120, 101,
      100, 45, 114, 101, 112, 108, 97, 99, 101, 59, 32>> \o BoundaryParam \o <<102>>

\* "multipart/form-data; boundary=F"
CTMultipartUpper == MultipartFormData \o <<59, 32>> \o BoundaryParam \o <<70>>

\* b"--f", the delimiter of the parts
Delimiter == DashDash \o <<102>>
\* b"--F", the delimiter of the parts of a request with boundary=F
DelimiterUpper == DashDash \o <<70>>
\* b"Content-Length: "
ContentLengthField ==
    <<67, 111, 110, 116, 101, 110, 116, 45, 76, 101, 110, 103, 116, 104, 58, 32>>
\* A negative declared length
NegativeLength == 0 - 100

\* The kinds of part a body is assembled from:
\*   plain     no headers, a good JPEG
\*   length    Content-Length equal to the JPEG's length, a good JPEG
\*   short     Content-Length one less than the JPEG's length, a good JPEG
\*   nosoi     no headers, a payload without the start marker
\*   negative  Content-Length: -100, a good JPEG
PartKinds == {"plain", "length", "short", "nosoi", "negative"}

PartPayload(kind, i) == IF kind = "nosoi" THEN NoSoiJpeg(i) ELSE GoodJpeg(i)

DeclaredLength(kind, i) ==
    IF kind = "length" THEN <<Len(PartPayload(kind, i))>>
    ELSE IF kind = "short" THEN <<Len(PartPayload(kind, i)) - 1>>
    ELSE IF kind = "negative" THEN <<NegativeLength>>
    ELSE <<>>

\* delimiter CRLF [Content-Length: n CRLF] CRLF payload CRLF
PartBytes(kind, i) ==
    Delimiter \o CRLF
    \o (IF DeclaredLength(kind, i) = <<>> THEN <<>>
        ELSE ContentLengthField \o IntDigits(DeclaredLength(kind, i)[1]) \o CRLF)
    \o CRLF \o PartPayload(kind, i) \o CRLF

\* The parts in order; a camera's stream has no closing delimiter
BodyOf(kinds) == Concat([i \in 1..Len(kinds) |-> PartBytes(kinds[i], i)])

\* The same parts delimited by b"--F"
BodyUpperOf(kinds) ==
    Concat([i \in 1..Len(kinds) |->
               DelimiterUpper \o PySliceFrom(PartBytes(kinds[i], i), Len(Delimiter))])

KindSeqs == UNION {[1..n -> PartKinds] : n \in 0..MaxParts}

Uploads ==
    {[content_type |-> CTRaw, body |-> b, parts |-> <<>>] : b \in Payloads(1) \cup {<<>>}}
    \cup {[content_type |-> CTMultipart, body |-> BodyOf(kinds), parts |-> kinds]
            : kinds \in KindSeqs}
    \cup {[content_type |-> ct, body |-> BodyOf(kinds), parts |-> kinds]
            : ct \in {CTNoBoundary, CTMixedReplace}, kinds \in {<<"plain">>, <<"length">>}}
    \cup {[content_type |-> CTMultipartUpper, body |-> BodyUpperOf(kinds), parts |-> kinds]
            : kinds \in {<<"length">>, <<"plain", "length">>}}

\* The camera's frame of the earlier uploads
EarlierJpeg == GoodJpeg(0)

\* The device before the request:
\*   unknown     never seen
\*   registered  registered without motion detection, one earlier upload
\*   motion      registered with motion detection, SegmentFrames - 1 earlier
\*               uploads without motion, so that the next frame fills the
\*               detector's buffer
\* The earlier uploads came at the first instant and their writer opened;
\* the request arrives at the second instant.
DeviceStates == {"unknown", "registered", "motion"}

EarlierUploads(state) ==
    IF state = "unknown" THEN 0
    ELSE IF state = "registered" THEN 1
    ELSE SegmentFrames - 1

EarlierFrames(state) == [i \in 1..EarlierUploads(state) |-> ImDecode(EarlierJpeg)]

EarlierDetector(state) ==
    [NewDetector EXCEPT
        !.frame_buffer = EarlierFrames(state),
        !.motion_frames = [i \in 1..EarlierUploads(state) |-> FALSE],
        !.frame_count = EarlierUploads(state),
        !.appended = EarlierFrames(state)]

Known(state) == IF state = "unknown" THEN {} ELSE {"cam1"}
Detecting(state) == IF state = "motion" THEN {"cam1"} ELSE {}
EarlierBucket == CurrentVideoTime(Instants[1], RecordingSegmentMinutes)

\* The system's state after the earlier uploads
DevicesBefore(state) == [d \in Known(state) |-> RegisteredAt(1, state = "motion")]
FramesBefore(state) == [d \in Known(state) |-> EarlierJpeg]
WritersBefore(state) ==
    [d \in Known(state) |->
        [NewWriter(TRUE, EarlierBucket) EXCEPT !.written = EarlierUploads(state)]]
LastVideoTimeBefore(state) == [d \in Known(state) |-> EarlierBucket]
FrameCountersBefore(state) == [d \in Known(state) |-> EarlierUploads(state)]
DetectorsBefore(state) == [d \in Detecting(state) |-> EarlierDetector(state)]
MotionDetectedBefore(state) == [d \in Detecting(state) |-> FALSE]
AnnotatedBefore(state) ==
    [d \in Detecting(state) |-> [of |-> EarlierJpeg, motion |-> FALSE]]

\* request.before records the device's state before the request
Requests ==
    {[device |-> "cam1", content_type |-> u.content_type, body |-> u.body,
      parts |-> u.parts, before |-> state] : u \in Uploads, state \in DeviceStates}

InitUpload ==
    /\ RangesIdle
    /\ BucketsIdle
    /\ buffer_frames = ClipBufferFrames
    /\ min_recording_frames = ClipMinFrames
    /\ request \in Requests
    /\ up_pc = "start"
    /\ up_pos = 0
    /\ up_buffer = <<>>
    /\ up_boundary = <<>>
    /\ up_emitted = <<>>
    /\ up_last_carve = <<>>
    /\ up_response = <<>>
    /\ EndpointsIdle
    /\ devices = DevicesBefore(request.before)
    /\ frames = FramesBefore(request.before)
    /\ video_writers = WritersBefore(request.before)
    /\ last_video_time = LastVideoTimeBefore(request.before)
    /\ frame_counters = FrameCountersBefore(request.before)
    /\ motion_detectors = DetectorsBefore(request.before)
    /\ motion_detected = MotionDetectedBefore(request.before)
    /\ annotated_frames = AnnotatedBefore(request.before)
    /\ sys_lock = Free
    /\ clips = EmptyDict
    /\ now = 2
    /\ shutting_down = FALSE
    /\ next_frame = 1
    /\ accepted = FramesBefore(request.before)
    /\ retired = <<>>
    /\ discarded = {}
    /\ config = DefaultConfig
    /\ open_writers = OpenOf(video_writers)
    /\ pc = [t \in Tasks \cup {Main} |-> "idle"]
    /\ loc = [t \in Tasks \cup {Main} |-> IdleLoc]

NextUpload ==
    \/ UploadBegin
    \/ RawBody
    \/ RawRespond
    \/ \E n \in ChunkSizes : RecvChunk(n)
    \/ ScanBreak
    \/ ScanCarve
    \/ StreamEnd
    \/ UpdateFrameStep(Handler)

SpecUpload == InitUpload /\ [][NextUpload]_vars

-----------------------------------------------------------------------------
(* Threads calling SecuritySystem's methods directly *)

\* with self.lock, for a call that waits at position at and whose body is
\* at position body
Acquire(t, at, body) ==
    /\ pc[t] = at
    /\ sys_lock = Free
    /\ sys_lock' = t
    /\ pc' = [pc EXCEPT ![t] = body]
    /\ UNCHANGED <<rvars, hvars, uvars, store_vars, recorder_vars, motion_vars, clips, now,
                   shutting_down, next_frame, accepted, retired, loc>>

\* A thread calls a method, which starts at position at; next_frame counts
\* the calls as well
Call(t, at) ==
    /\ pc[t] = "idle"
    /\ ~shutting_down
    /\ next_frame <= MaxCalls
    /\ next_frame' = next_frame + 1
    /\ pc' = [pc EXCEPT ![t] = at]
    /\ UNCHANGED <<rvars, hvars, uvars, store_vars, sys_lock, recorder_vars, motion_vars, clips,
                   now, shutting_down, accepted, retired>>

\* The value of a return statement inside the with block
ReturnValue(t, value) ==
    /\ loc' = [loc EXCEPT ![t].result = value]
    /\ UNCHANGED <<rvars, hvars, uvars, store_vars, sys_lock, recorder_vars, motion_vars, clips,
                   now, shutting_down, next_frame, accepted, retired>>

\* The with block left without releasing the lock.
LeaveHolding(t, at) ==
    /\ pc[t] = at
    /\ pc' = [pc EXCEPT ![t] = "idle"]
    /\ loc' = [loc EXCEPT ![t] = IdleLoc]
    /\ UNCHANGED <<rvars, hvars, uvars, store_vars, sys_lock, recorder_vars, motion_vars, clips,
                   now, shutting_down, next_frame, accepted, retired>>

\* The with block ends: the lock is released and the call returns
Leave(t, at) ==
    /\ pc[t] = at
    /\ Return(t)
    /\ UNCHANGED <<rvars, hvars, uvars, store_vars, recorder_vars, motion_vars, clips, now,
                   shutting_down, next_frame, accepted, retired>>

\* get_frame  (main.py 300-303)
CallGetFrame(t, d) ==
    /\ Call(t, "gf_lock")
    /\ loc' = [loc EXCEPT ![t].d = d]

\* The later read left out: get_frame answers None whatever the store holds.
get_frame_none(d) == <<>>

\* line 303: self.frames.get(device_id)
get_frame(d) == Get(frames, d)

GF_Read(t) ==
    /\ pc[t] = "gf_read"
    /\ ReturnValue(t, get_frame(loc[t].d))
    /\ pc' = [pc EXCEPT ![t] = "gf_return"]

GetFrameStep(t) ==
    \/ Acquire(t, "gf_lock", "gf_read")
    \/ GF_Read(t)
    \/ Leave(t, "gf_return")

\* get_annotated_frame  (main.py 305-308)
CallGetAnnotatedFrame(t, d) ==
    /\ Call(t, "ga_lock")
    /\ loc' = [loc EXCEPT ![t].d = d]

\* line 308: self.annotated_frames.get(device_id)
get_annotated_frame(d) == Get(annotated_frames, d)

GA_Read(t) ==
    /\ pc[t] = "ga_read"
    /\ ReturnValue(t, get_annotated_frame(loc[t].d))
    /\ pc' = [pc EXCEPT ![t] = "ga_return"]

GetAnnotatedFrameStep(t) ==
    \/ Acquire(t, "ga_lock", "ga_read")
    \/ GA_Read(t)
    \/ Leave(t, "ga_return")

\* register_device  (main.py 310-322)
CallRegisterDevice(t, d) ==
    /\ Call(t, "rd_lock")
    /\ loc' = [loc EXCEPT ![t].d = d]

RD_Body(t) ==
    /\ pc[t] = "rd_body"
    /\ RegisterDevice(loc[t].d)
    /\ Return(t)
    /\ UNCHANGED <<rvars, hvars, uvars, frames, recorder_vars, motion_vars, clips, now,
                   shutting_down, next_frame, accepted, retired>>

RegisterDeviceStep(t) ==
    \/ Acquire(t, "rd_lock", "rd_body")
    \/ RD_Body(t)

\* configure_motion_detection  (main.py 333-351); enabled is config.enabled
CallConfigureMotionDetection(t, d, enabled) ==
    /\ Call(t, "cm_lock")
    /\ loc' = [loc EXCEPT ![t].d = d, ![t].flag = enabled]

\* The buffer handed off as well when the detector is replaced or deleted.
PendingAndBuffer(d) ==
    IF Has(motion_detectors, d)
    THEN LET det == motion_detectors[d]
             tasks == det.running \o det.queue
                      \o << [frames |-> det.frame_buffer,
                             motion_frames |-> det.motion_frames,
                             timestamp |-> NowTime] >>
         IN  [i \in 1..Len(tasks) |-> [d |-> d, task |-> tasks[i]]]
    ELSE <<>>

\* The ClipTasks an executor still holds, running or queued, when its
\* detector leaves motion_detectors: its workers run them to their end
Pending(d) ==
    IF Has(motion_detectors, d)
    THEN LET det == motion_detectors[d]
             tasks == det.running \o det.queue
         IN  [i \in 1..Len(tasks) |-> [d |-> d, task |-> tasks[i]]]
    ELSE <<>>

\* The frames in the buffer of device d's detector
Buffered(d) ==
    IF Has(motion_detectors, d)
    THEN {motion_detectors[d].frame_buffer[i] :
             i \in 1..Len(motion_detectors[d].frame_buffer)}
    ELSE {}

\* lines 336-351: False for an unknown device; otherwise a new detector in
\* place of the device's detector (initialize_motion_detector, 134-163), or
\* the detector deleted, then the device's flag, and True
CM_Body(t) ==
    /\ pc[t] = "cm_body"
    /\ LET d == loc[t].d IN
       IF ~Has(devices, d)
       THEN UNCHANGED <<devices, motion_detectors, retired, discarded>>
       ELSE /\ retired' = retired \o Pending(d)
            /\ discarded' = discarded \cup Buffered(d)
            /\ IF loc[t].flag
               THEN /\ motion_detectors' = Put(motion_detectors, d, NewDetector)
                    /\ devices' = [devices EXCEPT ![d].motion_detection = TRUE]
               ELSE /\ motion_detectors' = Del(motion_detectors, d)
                    /\ devices' = [devices EXCEPT ![d].motion_detection = FALSE]
    /\ Return(t)
    /\ UNCHANGED <<rvars, config, open_writers, uvars, frames, recorder_vars,
                   motion_detected, annotated_frames, clips, now, shutting_down,
                   next_frame, accepted>>

ConfigureMotionDetectionStep(t) ==
    \/ Acquire(t, "cm_lock", "cm_body")
    \/ CM_Body(t)

\* A worker of a retired executor runs process_segment to its end
RetiredFinish ==
    \E i \in 1..Len(retired) :
        /\ clips' = Update(clips, SegmentClips(retired[i].d, retired[i].task))
        /\ retired' = RemoveAt(retired, i)
        /\ UNCHANGED <<rvars, hvars, uvars, store_vars, sys_lock, recorder_vars, motion_vars, now,
                       shutting_down, next_frame, accepted, pc, loc>>

\* update_frame called directly, with any payload
CallUpdateFrameDirect(t, d, frame_data) ==
    /\ Call(t, "uf_lock")
    /\ loc' = [loc EXCEPT ![t].d = d, ![t].data = frame_data]

-----------------------------------------------------------------------------
(* SpecCalls: threads calling the system directly, its workers, its shutdown *)

\* One thread feeds frames to update_frame; the other reads, registers and
\* configures
Feeder == "t1"
Client == "t2"

NextCalls ==
    \/ \E d \in Devices :
          \/ CallUpdateFrameDirect(Feeder, d, CameraJpeg(d, next_frame))
          \/ CallUpdateFrameDirect(Feeder, d, CameraCorruptJpeg(d, next_frame))
          \/ CallUpdateFrameDirect(Feeder, d, NoEoiJpeg(next_frame))
          \/ CallGetFrame(Client, d)
          \/ CallGetAnnotatedFrame(Client, d)
          \/ CallRegisterDevice(Client, d)
          \/ \E enabled \in BOOLEAN : CallConfigureMotionDetection(Client, d, enabled)
    \/ \E t \in Callers :
          \/ UpdateFrameStep(t)
          \/ GetFrameStep(t)
          \/ GetAnnotatedFrameStep(t)
          \/ RegisterDeviceStep(t)
          \/ ConfigureMotionDetectionStep(t)
    \/ \E d \in Devices : WorkerStart(d)
    \/ \E d \in Devices : WorkerFinish(d)
    \/ RetiredFinish
    \/ CleanupStep

SpecCalls == Init /\ [][NextCalls]_vars

\* The steps of a thread inside the call it has made
ThreadStep(t) ==
    \/ UpdateFrameStep(t)
    \/ GetFrameStep(t)
    \/ GetAnnotatedFrameStep(t)
    \/ RegisterDeviceStep(t)
    \/ ConfigureMotionDetectionStep(t)

\* The scheduler runs every thread that can run: a caller inside a call,
\* the workers of the pools (ThreadPoolExecutor's threads), and the thread
\* of the shutdown event once it has started cleanup
FairSpecCalls ==
    /\ SpecCalls
    /\ \A t \in Callers : WF_vars(ThreadStep(t))
    /\ \A d \in Devices : WF_vars(WorkerStart(d)) /\ WF_vars(WorkerFinish(d))
    /\ WF_vars(RetiredFinish)
    /\ WF_vars(shutting_down /\ CleanupStep)

-----------------------------------------------------------------------------
(* The endpoints of the registry and of the live view  (main.py 392-418,   *)
(* 728-754), each request handled on a task                                *)

\* Python's truth of an optional string: None and '' are false
Truthy(x) == x # <<>> /\ x[1] # ""

\* A request begins on a task that runs no handler and no method
Begin(t) ==
    /\ endpoint[t].at \in {"none", "done", "ended"}
    /\ pc[t] = "idle"
    /\ ~shutting_down
    /\ next_frame <= MaxCalls
    /\ next_frame' = next_frame + 1

\* What the handlers leave alone
EndpointFrame ==
    UNCHANGED <<rvars, hvars, request, up_pc, up_pos, up_buffer, up_boundary, up_emitted,
                up_last_carve, up_response, frames, sys_lock, recorder_vars,
                motion_vars, clips, now, shutting_down, accepted, retired>>

\* The method the handler called returns from position at: the with block
\* ends, the lock is released and the handler has the returned value
ReturnToHandler(t, at) ==
    /\ pc[t] = at
    /\ endpoint[t].at \in {"called", "get_frame"}
    /\ Return(t)
    /\ endpoint' = [endpoint EXCEPT ![t].returned = loc[t].result]
    /\ UNCHANGED <<rvars, hvars, request, up_pc, up_pos, up_buffer, up_boundary, up_emitted,
                   up_last_carve, up_response, store_vars, recorder_vars, motion_vars,
                   clips, now, shutting_down, next_frame, accepted, retired>>

\* The truth test left out: any request is registered.
RegistrationValidAlways(device_id, device_type) == TRUE

\* line 397: if device_id and device_type
RegistrationValid(device_id, device_type) == Truthy(device_id) /\ Truthy(device_type)

\* POST /register_device  (main.py 392-400): data.get("device_id") and
\* data.get("type") of the JSON body; system.register_device is called only
\* when both are given
RegisterDeviceBegin(t, device_id, device_type) ==
    /\ Begin(t)
    /\ IF RegistrationValid(device_id, device_type)
       THEN /\ endpoint' = [endpoint EXCEPT ![t] =
                   [EndpointIdle EXCEPT !.handler = "register_device", !.at = "called",
                                        !.device_id = device_id,
                                        !.device_type = device_type]]
            /\ pc' = [pc EXCEPT ![t] = "rd_lock"]
            /\ loc' = [loc EXCEPT ![t].d = IF device_id = <<>> THEN "cam1" ELSE device_id[1]]
       ELSE /\ endpoint' = [endpoint EXCEPT ![t] =
                   [EndpointIdle EXCEPT !.handler = "register_device", !.at = "done",
                                        !.device_id = device_id,
                                        !.device_type = device_type,
                                        !.response = << [status |-> "error"] >>]]
            /\ UNCHANGED <<pc, loc>>
    /\ UNCHANGED devices
    /\ EndpointFrame

\* line 399, once system.register_device has returned
RegisterDeviceRespond(t) ==
    /\ endpoint[t].handler = "register_device"
    /\ endpoint[t].at = "called"
    /\ pc[t] = "idle"
    /\ endpoint' = [endpoint EXCEPT
           ![t].response = << [status |-> "registered",
                               device_id |-> endpoint[t].device_id[1]] >>,
           ![t].at = "done"]
    /\ UNCHANGED <<devices, next_frame, pc, loc>>
    /\ EndpointFrame

\* The alias assigned to every device of the registry.
SetAliasOfAll(d, alias) == [x \in DOMAIN devices |-> [devices[x] EXCEPT !.alias = <<alias>>]]

\* line 328: self.devices[device_id].alias = alias
SetAlias(d, alias) == [devices EXCEPT ![d].alias = <<alias>>]

\* SecuritySystem.update_device_alias  (main.py 324-331), the with block
UA_Body(t) ==
    /\ pc[t] = "ua_body"
    /\ LET d == loc[t].d IN
       IF Has(devices, d)
       THEN /\ devices' = SetAlias(d, loc[t].alias)
            /\ loc' = [loc EXCEPT ![t].result = <<TRUE>>]
       ELSE /\ UNCHANGED devices
            /\ loc' = [loc EXCEPT ![t].result = <<FALSE>>]
    /\ pc' = [pc EXCEPT ![t] = "ua_return"]
    /\ UNCHANGED <<rvars, hvars, uvars, frames, sys_lock, recorder_vars, motion_vars, clips, now,
                   shutting_down, next_frame, accepted, retired>>

UpdateDeviceAliasStep(t) ==
    \/ Acquire(t, "ua_lock", "ua_body")
    \/ UA_Body(t)
    \/ ReturnToHandler(t, "ua_return")

\* POST /device/{device_id}/alias  (main.py 402-406): update.alias is a str
UpdateDeviceAliasBegin(t, device_id, alias) ==
    /\ Begin(t)
    /\ endpoint' = [endpoint EXCEPT ![t] =
           [EndpointIdle EXCEPT !.handler = "update_device_alias", !.at = "called",
                                !.device_id = <<device_id>>, !.alias = <<alias>>]]
    /\ pc' = [pc EXCEPT ![t] = "ua_lock"]
    /\ loc' = [loc EXCEPT ![t].d = device_id, ![t].alias = alias]
    /\ UNCHANGED devices
    /\ EndpointFrame

\* lines 404-406, once system.update_device_alias has returned
UpdateDeviceAliasRespond(t) ==
    /\ endpoint[t].handler = "update_device_alias"
    /\ endpoint[t].at = "called"
    /\ pc[t] = "idle"
    /\ endpoint' = [endpoint EXCEPT
           ![t].response =
               IF endpoint[t].returned = <<TRUE>>
               THEN << [status |-> "updated", device_id |-> endpoint[t].device_id[1],
                        alias |-> endpoint[t].alias[1]] >>
               ELSE << [status |-> "error"] >>,
           ![t].at = "done"]
    /\ UNCHANGED <<devices, next_frame, pc, loc>>
    /\ EndpointFrame

\* GET /devices  (main.py 408-418).  Device is a pydantic BaseModel that
\* declares no field motion_active and does not allow extra fields (28-34),
\* so the setattr of line 414 or 416 raises ValueError for the first device
\* of the list: the handler returns {"devices": []} for an empty registry
\* and ends with the exception otherwise
ListDevices(t) ==
    /\ Begin(t)
    /\ endpoint' = [endpoint EXCEPT ![t] =
           [EndpointIdle EXCEPT
               !.handler = "list_devices", !.at = "done",
               !.response = IF DOMAIN devices = {}
                            THEN << [status |-> "ok", devices |-> {}] >>
                            ELSE << [status |-> "exception", devices |-> {}] >>]]
    /\ UNCHANGED <<devices, pc, loc>>
    /\ EndpointFrame

\* b'--frame\r\nContent-Type: image/jpeg\r\n\r\n'  (main.py 741, 744-745)
PartHeader ==
    <<45, 45, 102, 114, 97, 109, 101, 13, 10,
      67, 111, 110, 116, 101, 110, 116, 45, 84, 121, 112, 101, 58, 32,
      105, 109, 97, 103, 101, 47, 106, 112, 101, 103, 13, 10, 13, 10>>

\* lines 741 and 744-745: the part yielded for frame_data
Part(frame_data) == PartHeader \o frame_data \o CRLF

\* lines 735-737: the JPEG encoding of a black 640x480 picture
BlankJpeg == SOI \o <<0>> \o EOI

\* GET /stream/{device_id}?limit=n  (main.py 728-754): the handler returns
\* the StreamingResponse; generate() has not run yet
StreamVideoBegin(t, device_id, limit) ==
    /\ Begin(t)
    /\ endpoint' = [endpoint EXCEPT ![t] =
           [EndpointIdle EXCEPT !.handler = "stream_video", !.at = "loop",
                                !.device_id = <<device_id>>, !.limit = limit,
                                !.known = Has(devices, device_id),
                                !.response = << [status |-> "ok"] >>]]
    /\ UNCHANGED <<devices, pc, loc>>
    /\ EndpointFrame

\* The loop goes round however many parts were yielded.
LoopGoesOnAlways(limit, frame_count) == TRUE

\* line 732: limit is None or frame_count < limit
LoopGoesOn(limit, frame_count) == limit = <<>> \/ frame_count < limit[1]

\* lines 732-733: the loop's test, then the call of system.get_frame; a
\* stream without a limit is followed for MaxLimit + 1 parts
GenerateLoop(t) ==
    /\ endpoint[t].handler = "stream_video"
    /\ endpoint[t].at = "loop"
    /\ pc[t] = "idle"
    /\ Len(endpoint[t].yielded) <= MaxLimit
    /\ IF LoopGoesOn(endpoint[t].limit, endpoint[t].frame_count)
       THEN /\ pc' = [pc EXCEPT ![t] = "gf_lock"]
            /\ loc' = [loc EXCEPT ![t].d = endpoint[t].device_id[1]]
            /\ endpoint' = [endpoint EXCEPT ![t].at = "get_frame"]
       ELSE /\ endpoint' = [endpoint EXCEPT ![t].at = "ended"]
            /\ UNCHANGED <<pc, loc>>
    /\ UNCHANGED <<devices, next_frame>>
    /\ EndpointFrame

\* The placeholder left out: a part with no payload when the store has none.
FrameDataOrEmpty(result) == IF result = <<>> THEN <<>> ELSE result[1]

\* lines 734-737: the frame get_frame returned, or the placeholder for None
FrameDataOr(result) == IF result = <<>> THEN BlankJpeg ELSE result[1]

\* lines 734-747, once get_frame has returned: the part is yielded; for a
\* device that is not in system.devices the loop breaks, otherwise
\* frame_count is incremented and the loop goes round
GenerateYield(t) ==
    /\ endpoint[t].handler = "stream_video"
    /\ endpoint[t].at = "get_frame"
    /\ pc[t] = "idle"
    /\ LET frame_data == FrameDataOr(endpoint[t].returned) IN
       endpoint' = [endpoint EXCEPT
           ![t].frame_data = frame_data,
           ![t].yielded = Append(@, Part(frame_data)),
           ![t].frame_count = IF Has(devices, endpoint[t].device_id[1]) THEN @ + 1 ELSE @,
           ![t].at = IF Has(devices, endpoint[t].device_id[1]) THEN "loop" ELSE "ended"]
    /\ UNCHANGED <<devices, next_frame, pc, loc>>
    /\ EndpointFrame

EndpointStep(t) ==
    \/ RegisterDeviceRespond(t)
    \/ UpdateDeviceAliasRespond(t)
    \/ GenerateLoop(t)
    \/ GenerateYield(t)

-----------------------------------------------------------------------------
(* SpecEndpoints: requests to the registry and the live view while a       *)
(* camera's frames arrive                                                  *)

\* The values of a JSON field of the registration: absent, '', or given
DeviceIds == {<<>>, <<"">>} \cup {<<d>> : d \in Devices}
DeviceTypes == {<<>>, <<"">>, <<"ESP32-CAM">>}
Aliases == {"Living Room", "Kitchen"}
Limits == {<<>>} \cup {<<n>> : n \in 0..MaxLimit}

\* The system as constructed with no devices.json: no device is registered
InitEndpoints ==
    /\ RangesIdle
    /\ BucketsIdle
    /\ buffer_frames = ClipBufferFrames
    /\ min_recording_frames = ClipMinFrames
    /\ UploadIdle
    /\ EndpointsIdle
    /\ SystemIdle

\* update_frame for a device without motion detection, which is every
\* device here (a registration creates the device with motion_detection
\* False, and its configuration is not among the requests): the call returns
\* at line 194, after the recording step
UpdateFrameNoDetection(t) == UF_Lock(t) \/ UF_Store(t) \/ UF_Record(t) \/ UF_Motion(t)

NextEndpoints ==
    \/ \E d \in Devices :
          /\ endpoint[Feeder].at \in {"none", "done"}
          /\ CallUpdateFrameDirect(Feeder, d, CameraJpeg(d, next_frame))
    \/ \E device_id \in DeviceIds, device_type \in DeviceTypes :
          RegisterDeviceBegin(Feeder, device_id, device_type)
    \/ \E d \in Devices, alias \in Aliases : UpdateDeviceAliasBegin(Feeder, d, alias)
    \/ ListDevices(Client)
    \/ \E d \in Devices, limit \in Limits : StreamVideoBegin(Client, d, limit)
    \/ \E t \in Tasks :
          \/ EndpointStep(t)
          \/ UpdateFrameNoDetection(t)
          \/ RegisterDeviceStep(t)
          \/ UpdateDeviceAliasStep(t)
          \/ Acquire(t, "gf_lock", "gf_read")
          \/ GF_Read(t)
          \/ ReturnToHandler(t, "gf_return")

SpecEndpoints == InitEndpoints /\ [][NextEndpoints]_vars

-----------------------------------------------------------------------------
(* SpecRanges: every call of _find_motion_ranges within the bounds *)

InitRanges ==
    /\ motion_frames_arg \in BoolSeqs(MaxFlags)
    /\ buffer_frames \in 0..MaxBufferFrames
    /\ min_recording_frames \in 0..MaxMinFrames
    /\ rpc = "call"
    /\ ranges = <<>>
    /\ merged_ranges = <<>>
    /\ remerged_ranges = <<>>
    /\ BucketsIdle
    /\ SystemIdle
    /\ UploadIdle
    /\ EndpointsIdle

\* The call runs to its return statement.
FindMotionRanges ==
    /\ rpc = "call"
    /\ ranges' = ScanMotion(motion_frames_arg, buffer_frames, min_recording_frames)
    /\ merged_ranges' = MergeRanges(ranges')
    /\ rpc' = "returned"
    /\ UNCHANGED <<motion_frames_arg, buffer_frames, min_recording_frames,
                   remerged_ranges, bucket_in, bucket_out, svars, uvars, hvars>>

\* The merge step run a second time, on its own output.
MergeAgain ==
    /\ rpc = "returned"
    /\ remerged_ranges' = MergeRanges(merged_ranges)
    /\ rpc' = "remerged"
    /\ UNCHANGED <<motion_frames_arg, buffer_frames, min_recording_frames,
                   ranges, merged_ranges, bucket_in, bucket_out, svars, uvars, hvars>>

\* The snapshot handed to process_segment: frame number i at Python index
\* i - 1, flagged by motion_frames_arg, on the detector of SnapshotDevice
SnapshotDevice == "cam1"
SnapshotFrames(n) == [i \in 1..n |-> i]

\* process_segment (motion_detector.py 160-182) on the snapshot, run by a
\* worker to its end; merged_ranges is its local motion_ranges of line 175
ProcessSegment ==
    /\ rpc = "call"
    /\ LET task == [frames |-> SnapshotFrames(Len(motion_frames_arg)),
                    motion_frames |-> motion_frames_arg,
                    timestamp |-> NowTime]
       IN  clips' = Update(clips, SegmentClips(SnapshotDevice, task))
    /\ merged_ranges' =
           IF AnyTrue(motion_frames_arg)
           THEN _find_motion_ranges(motion_frames_arg, buffer_frames, min_recording_frames)
           ELSE <<>>
    /\ rpc' = "processed"
    /\ UNCHANGED <<motion_frames_arg, buffer_frames, min_recording_frames, ranges,
                   remerged_ranges, bucket_in, bucket_out, uvars, hvars, store_vars, sys_lock,
                   recorder_vars, motion_vars,
                   now, shutting_down, next_frame, accepted, retired, pc, loc>>

NextRanges == FindMotionRanges \/ MergeAgain \/ ProcessSegment

-----------------------------------------------------------------------------
(* SpecClips: the loop of process_segment (motion_detector.py 180-182) over  *)
(* any list of intervals, and _create_motion_clip (239-271) on each of them *)

\* frames[i] of Python for an index the list has
ItemAt(fs, i) == fs[(IF i < 0 THEN Len(fs) + i ELSE i) + 1]

\* _create_motion_clip(frames, start_idx, end_idx): whether the clip file is
\* created (line 260), the frames written to it (263-264), and whether the
\* call raises.  range(start_idx, min(end_idx + 1, len(frames))) reaches no
\* index past the list; a negative index counts from the end of the list,
\* and raises IndexError when it is below -len(frames)
CreateMotionClip(fs, start_idx, end_idx) ==
    LET n == Len(fs)
        stop == Min(end_idx + 1, n)
    IN  IF fs = <<>> \/ start_idx >= n \/ start_idx > end_idx
        THEN [created |-> FALSE, written |-> <<>>, raised |-> FALSE]
        ELSE IF start_idx < 0 - n
        THEN [created |-> TRUE, written |-> <<>>, raised |-> TRUE]
        ELSE [created |-> TRUE,
              written |-> [j \in 1..Max(stop - start_idx, 0) |->
                              ItemAt(fs, start_idx + j - 1)],
              raised |-> FALSE]

\* The indices a caller may pass for a segment of n frames
ClipIndices == (0 - (MaxClipFrames + 1))..(MaxClipFrames + 1)
ClipIntervals == {<<s, e>> : s \in ClipIndices, e \in ClipIndices}

\* The segment has Len(motion_frames_arg) frames; merged_ranges is the list
\* motion_ranges the loop runs over, ranges what is left of it
InitClips ==
    /\ motion_frames_arg \in UNION {[1..n -> {TRUE}] : n \in 0..MaxClipFrames}
    /\ merged_ranges \in UNION {[1..k -> ClipIntervals] : k \in 1..2}
    /\ ranges = merged_ranges
    /\ remerged_ranges = <<>>
    /\ rpc = "clips"
    /\ buffer_frames = ClipBufferFrames
    /\ min_recording_frames = ClipMinFrames
    /\ BucketsIdle
    /\ SystemIdle
    /\ UploadIdle
    /\ EndpointsIdle

\* The number of the interval the loop is at, from 1
ClipNumber == Len(merged_ranges) - Len(ranges) + 1

\* lines 180-182, one iteration: the clip of the next interval.  An
\* exception of _create_motion_clip leaves process_segment, and the
\* worker's task ends with it
CreateClipStep ==
    /\ rpc = "clips"
    /\ ranges # <<>>
    /\ LET fs == SnapshotFrames(Len(motion_frames_arg))
           clip == CreateMotionClip(fs, ranges[1][1], ranges[1][2])
       IN  /\ clips' = IF clip.created
                       THEN Put(clips, <<SnapshotDevice, NowTime, ClipNumber>>, clip.written)
                       ELSE clips
           /\ IF clip.raised
              THEN rpc' = "raised" /\ UNCHANGED ranges
              ELSE /\ ranges' = Tail(ranges)
                   /\ rpc' = IF Tail(ranges) = <<>> THEN "clips_done" ELSE "clips"
    /\ UNCHANGED <<motion_frames_arg, buffer_frames, min_recording_frames, merged_ranges,
                   remerged_ranges, bucket_in, bucket_out, uvars, hvars, store_vars, sys_lock,
                   recorder_vars, motion_vars, now, shutting_down, next_frame, accepted,
                   retired, pc, loc>>

NextClips == CreateClipStep

SpecClips == InitClips /\ [][NextClips]_vars

SpecRanges == InitRanges /\ [][NextRanges]_vars

-----------------------------------------------------------------------------
(* SpecBuckets: the bucket of process_continuous_recording (main.py 210-213)
   on two clock readings of one day *)

\* The clock readings: hours 10 and 11, minutes 0..MaxMinute, seconds 0 and
\* 59, as seconds since midnight
BucketHours == {10, 11}
BucketSeconds == {0, 59}
ClockReadings ==
    {h * 3600 + mi * 60 + s : h \in BucketHours, mi \in 0..MaxMinute, s \in BucketSeconds}

InitBuckets ==
    /\ bucket_in \in [first : ClockReadings, second : ClockReadings,
                      minutes : 1..MaxSegmentMinutes]
    /\ bucket_out = <<>>
    /\ RangesIdle
    /\ buffer_frames = ClipBufferFrames
    /\ min_recording_frames = ClipMinFrames
    /\ SystemIdle
    /\ UploadIdle
    /\ EndpointsIdle

\* lines 210-213 on each of the two readings
ComputeBuckets ==
    /\ bucket_out = <<>>
    /\ bucket_out' = <<CurrentVideoTime(bucket_in.first, bucket_in.minutes),
                       CurrentVideoTime(bucket_in.second, bucket_in.minutes)>>
    /\ UNCHANGED <<bucket_in, motion_frames_arg, buffer_frames, min_recording_frames, rpc,
                   ranges, merged_ranges, remerged_ranges, svars, uvars, hvars>>

NextBuckets == ComputeBuckets

SpecBuckets == InitBuckets /\ [][NextBuckets]_vars

-----------------------------------------------------------------------------
(* Properties of _find_motion_ranges, checked under SpecRanges *)

Returned == rpc \in {"returned", "remerged"}

\* The scenario of the specification's section 8.
ScenarioFlags == <<FALSE, FALSE, TRUE, FALSE, FALSE, FALSE, FALSE, FALSE, FALSE, FALSE>>
InScenario ==
    /\ motion_frames_arg = ScenarioFlags
    /\ buffer_frames = 2
    /\ min_recording_frames = 3

\* C4 as stated: for the flags [F,F,T,F,F,F,F,F,F,F] with buffer_frames = 2
\* and min_recording_frames = 3 the call returns exactly the interval (0,6).
C4_Original == (InScenario /\ Returned) => merged_ranges = << <<0, 6>> >>

\* C4 amended: for that input the call returns exactly one interval, (0,7):
\* motion is closed at index 5, the first false index whose two preceding
\* flags are both false, and the end is padded to 5 + 2 = 7.
C4_ScenarioInterval == (InScenario /\ Returned) => merged_ranges = << <<0, 7>> >>

C4_Witness == InScenario /\ rpc = "returned" /\ Len(merged_ranges) = 1

\* C5: every returned interval satisfies 0 <= start <= end <= len-1, and each
\* interval starts after the end of the one before it (sorted by strictly
\* increasing start, pairwise disjoint).
C5_WellFormed ==
    Returned =>
        /\ \A k \in 1..Len(merged_ranges) :
              /\ 0 <= merged_ranges[k][1]
              /\ merged_ranges[k][1] <= merged_ranges[k][2]
              /\ merged_ranges[k][2] <= Len(motion_frames_arg) - 1
        /\ \A k \in 2..Len(merged_ranges) :
              merged_ranges[k][1] > merged_ranges[k - 1][2]

\* Two intervals are returned and the merge step joined overlapping ones.
C5_Witness ==
    /\ rpc = "returned"
    /\ Len(merged_ranges) >= 2
    /\ Len(ranges) > Len(merged_ranges)

\* The maximal runs of true flags, as pairs of 0-based indices.
TrueRuns(mf) ==
    {<<s, e>> \in (0..Len(mf) - 1) \X (0..Len(mf) - 1) :
        /\ s <= e
        /\ mf[s + 1] /\ mf[e + 1]
        /\ (s = 0 \/ ~mf[s])
        /\ (e = Len(mf) - 1 \/ ~mf[e + 2])
        /\ \A x \in s..e : mf[x + 1]}

CoveredBy(x, rs) == \E k \in 1..Len(rs) : rs[k][1] <= x /\ x <= rs[k][2]

PaddedRunCovered(mf, run, b, rs) ==
    \A x \in Max(0, run[1] - b)..Min(Len(mf) - 1, run[2] + b) : CoveredBy(x, rs)

\* C6 as stated: every maximal run of true flags is covered, with its
\* padding, by the returned intervals.
C6_Original ==
    Returned =>
        \A run \in TrueRuns(motion_frames_arg) :
            PaddedRunCovered(motion_frames_arg, run, buffer_frames, merged_ranges)

\* The intervals the scan closes before the minimum-length check is applied.
ClosedIntervals == ScanMotion(motion_frames_arg, buffer_frames, 0)

\* The interval the scan closes for a run: the one opened last at or before it.
IsIntervalOfRun(ci, k, run) ==
    /\ ci[k][1] <= run[1]
    /\ (k = Len(ci) \/ ci[k + 1][1] > run[1])

\* C6 amended: every maximal run of true flags whose own interval, as closed
\* by the scan, has at least min_recording_frames frames is covered with its
\* padding by the returned intervals (a shorter interval is discarded and
\* its run may be left uncovered).
C6_QualifyingRunsCovered ==
    rpc = "returned" =>
        LET ci == ClosedIntervals IN
        \A k \in 1..Len(ci) :
            (ci[k][2] - ci[k][1] + 1 >= min_recording_frames) =>
                \A run \in TrueRuns(motion_frames_arg) :
                    IsIntervalOfRun(ci, k, run) =>
                        PaddedRunCovered(motion_frames_arg, run, buffer_frames,
                                         merged_ranges)

\* A run is covered with padding on both sides, another run was discarded.
C6_Witness ==
    /\ rpc = "returned"
    /\ buffer_frames >= 1
    /\ merged_ranges # <<>>
    /\ merged_ranges[1][1] > 0
    /\ Len(ClosedIntervals) > Len(ranges)

\* C7: every returned interval has at least min_recording_frames frames.
C7_MinimumLength ==
    Returned =>
        \A k \in 1..Len(merged_ranges) :
            merged_ranges[k][2] - merged_ranges[k][1] + 1 >= min_recording_frames

\* An interval is returned while a shorter one was discarded.
C7_Witness ==
    /\ rpc = "returned"
    /\ min_recording_frames >= 3
    /\ merged_ranges # <<>>
    /\ Len(ClosedIntervals) > Len(ranges)

\* C8: the merge step applied to its own output returns that list unchanged.
C8_MergeIdempotent == rpc = "remerged" => remerged_ranges = merged_ranges

\* The first merge joined overlapping intervals and left at least two.
C8_Witness ==
    /\ rpc = "remerged"
    /\ Len(ranges) > Len(merged_ranges)
    /\ Len(merged_ranges) >= 2

-----------------------------------------------------------------------------
(* Properties of the motion buffer's hand-off, checked under Spec *)

AllTasks == Tasks \cup {Main}

\* The tasks that have swapped out the buffer of detector d (lines 353-359)
\* and have not yet reached executor.submit (line 365)
HandingOff(d) == {t \in AllTasks : pc[t] = "pcs_submit" /\ loc[t].d = d}

\* The snapshot such a task holds in frames_copy
InFlightSnapshot(d) ==
    IF HandingOff(d) = {} THEN <<>>
    ELSE loc[CHOOSE t \in HandingOff(d) : TRUE].frames_copy

\* C9 as stated: on every detector, the snapshots submitted so far, in
\* submission order, followed by the live buffer are exactly the frames
\* appended so far, in arrival order.
C9_Original ==
    \A d \in DOMAIN motion_detectors :
        Concat(motion_detectors[d].submitted) \o motion_detectors[d].frame_buffer
            = motion_detectors[d].appended

\* C9: on every detector at most one snapshot is swapped out and not yet
\* submitted, and the snapshots submitted so far, in submission order, then
\* that snapshot, then the live buffer are exactly the frames appended so
\* far, in arrival order: no frame is lost, duplicated or reordered across
\* buffer generations.  The motion flags travel with their frames.
C9_HandOffAtomic ==
    \A d \in DOMAIN motion_detectors :
        /\ Cardinality(HandingOff(d)) <= 1
        /\ Concat(motion_detectors[d].submitted) \o InFlightSnapshot(d)
               \o motion_detectors[d].frame_buffer
             = motion_detectors[d].appended
        /\ Len(motion_detectors[d].motion_frames) = Len(motion_detectors[d].frame_buffer)
        /\ \A t \in HandingOff(d) :
               Len(loc[t].motion_frames_copy) = Len(loc[t].frames_copy)

\* A full segment was handed off by process_frame, later frames were
\* buffered, and cleanup has flushed them as a second snapshot.
C9_Witness ==
    /\ pc[Main] = "done"
    /\ Has(motion_detectors, "cam1")
    /\ Len(motion_detectors["cam1"].submitted) = 2
    /\ Len(motion_detectors["cam1"].submitted[1]) = SegmentFrames
    /\ Len(motion_detectors["cam1"].submitted[2]) = 1
    /\ Len(motion_detectors["cam1"].appended) = SegmentFrames + 1

\* C10, the state part: the live buffer never holds more than segment_frames
\* frames, frame_count is its length, and a full buffer exists only while
\* the call that filled it is on its way to the swap, holding the system lock.
BufferBounded ==
    \A d \in DOMAIN motion_detectors :
        LET det == motion_detectors[d] IN
        /\ Len(det.frame_buffer) <= SegmentFrames
        /\ det.frame_count = Len(det.frame_buffer)
        /\ Len(det.frame_buffer) = SegmentFrames =>
               \E t \in Callers : /\ sys_lock = t
                                  /\ loc[t].d = d
                                  /\ pc[t] \in {"pf_check", "pcs_lock", "pcs_swap"}

\* C10, the step part: the live buffer changes only by one appended frame,
\* or by a swap that, in one step made while holding the detector's lock,
\* copies the whole buffer into the caller's frames_copy and leaves the live
\* buffer empty.
SwapInOneCriticalSection ==
    \A d \in DOMAIN motion_detectors :
        (d \in DOMAIN motion_detectors'
            /\ motion_detectors'[d].frame_buffer # motion_detectors[d].frame_buffer)
        => \/ /\ Len(motion_detectors'[d].frame_buffer)
                     = Len(motion_detectors[d].frame_buffer) + 1
              /\ SubSeq(motion_detectors'[d].frame_buffer, 1,
                        Len(motion_detectors[d].frame_buffer))
                     = motion_detectors[d].frame_buffer
           \/ \E t \in AllTasks :
                 /\ motion_detectors[d].lock = t
                 /\ motion_detectors'[d].lock = Free
                 /\ motion_detectors'[d].frame_buffer = <<>>
                 /\ motion_detectors'[d].frame_count = 0
                 /\ loc'[t].frames_copy = motion_detectors[d].frame_buffer

-----------------------------------------------------------------------------
(* Properties of the frame extractor, checked under SpecUpload *)

\* The scan loop of lines 518-582 run on a buffer that holds the whole body:
\* the payloads it passes to update_frame
RECURSIVE OneChunk(_, _, _)
OneChunk(buf, boundary, emitted) ==
    LET it == ScanIteration(buf, boundary) IN
    IF it.wait THEN emitted
    ELSE OneChunk(it.rest, boundary,
                  IF HasJpegMarkers(it.frame_data) /\ ImDecodes(JpegData(it.frame_data))
                  THEN Append(emitted, JpegData(it.frame_data))
                  ELSE emitted)

\* A valid chunked-framing payload: a multipart request with a boundary,
\* each part a good JPEG with no Content-Length or with the right one
ValidPayload ==
    /\ request.content_type = CTMultipart
    /\ \A i \in 1..Len(request.parts) : request.parts[i] \in {"plain", "length"}

\* C1: for a valid chunked-framing payload, however the body was split into
\* chunks, the payloads passed to update_frame when the stream has ended are
\* exactly those passed when the whole body arrives as one chunk.
C1_ChunkInvariance ==
    (up_pc = "done" /\ ValidPayload)
        => up_emitted = OneChunk(request.body, ParseBoundary(request.content_type), <<>>)

\* A body of two parts came in chunks: the second part was carved, and its
\* frame emitted, before the last bytes of the body had arrived.
C1_Witness ==
    /\ up_pc = "done"
    /\ ValidPayload
    /\ Len(request.parts) = 2
    /\ up_emitted = <<GoodJpeg(1), GoodJpeg(2)>>
    /\ up_last_carve # <<>>
    /\ up_last_carve[1].pos < Len(request.body)

\* C2 as stated: every iteration of the scan loop that does not stop to wait
\* carves a part and strictly shortens the buffer, whatever the
\* Content-Length header declares.
C2_Original ==
    up_last_carve # <<>> => up_last_carve[1].after < up_last_carve[1].before

\* The payload lacks a start or an end marker: a raw body that fails the
\* test of line 450, or a multipart body each of whose parts is cut by its
\* Content-Length before the end marker or has no start marker
MarkerlessPayload ==
    \/ /\ request.content_type = CTRaw
       /\ ~StartsWith(request.body, SOI) \/ ~EndsWith(request.body, EOI)
    \/ /\ request.content_type = CTMultipart
       /\ \A i \in 1..Len(request.parts) : request.parts[i] \in {"short", "nosoi"}

\* update_frame was not called and nothing of the system but the registry
\* has changed
NothingStored ==
    /\ up_emitted = <<>>
    /\ pc[Handler] = "idle"
    /\ frames = FramesBefore(request.before)
    /\ video_writers = WritersBefore(request.before)
    /\ last_video_time = LastVideoTimeBefore(request.before)
    /\ frame_counters = FrameCountersBefore(request.before)
    /\ motion_detectors = DetectorsBefore(request.before)
    /\ motion_detected = MotionDetectedBefore(request.before)
    /\ annotated_frames = AnnotatedBefore(request.before)
    /\ clips = EmptyDict

\* The handler ends with a response, never with an exception
Responds ==
    up_pc = "done" => /\ up_response # <<>>
                      /\ up_response[1].status \in {"success", "error"}

\* C3 as stated: a payload that lacks the start or the end marker emits no
\* frame, and the device's frame-store entry, last-seen time, recorder state
\* and motion buffer are unchanged.
C3_Original ==
    MarkerlessPayload => /\ NothingStored
                         /\ devices = DevicesBefore(request.before)

\* The registry after the request for a device it did not know
Registered ==
    up_pc # "start" => devices = Put(EmptyDict, request.device, NewDevice)

\* A request whose payload lacks the markers stores nothing, is answered,
\* and leaves the registry as it was but for registering an unknown device
MarkerlessHarmless ==
    MarkerlessPayload =>
        /\ NothingStored
        /\ Responds
        /\ IF request.before = "unknown" THEN Registered
           ELSE devices = DevicesBefore(request.before)

\* A step that carves a part without a start marker followed by a later end
\* marker calls nothing and changes nothing of the system
MarkerlessPartSilent ==
    (/\ up_pc = "scan"
     /\ pc[Handler] = "idle"
     /\ up_last_carve' # up_last_carve
     /\ ~HasJpegMarkers(ScanIteration(up_buffer, up_boundary).frame_data))
    => UNCHANGED <<svars, up_emitted>>

\* C3: a payload that lacks the start or the end marker emits no frame and
\* the handler answers without an exception; the frame store, the recorder
\* and the motion buffer are unchanged; a registered device's record, its
\* last-seen time included, is unchanged, and an unknown device is
\* registered by the request.  Within any body, carving a part that lacks
\* the markers changes nothing.
C3_MarkerlessIgnored == []MarkerlessHarmless /\ [][MarkerlessPartSilent]_vars

\* A raw body without its end marker was refused for a device whose
\* detector holds buffered frames, and a multipart request of two parts
\* without markers has ended.
C3_Witness ==
    /\ up_pc = "done"
    /\ MarkerlessPayload
    /\ \/ /\ request.before = "motion"
          /\ request.body = NoEoiJpeg(1)
          /\ up_response[1].status = "error"
       \/ /\ request.before = "registered"
          /\ request.parts = <<"nosoi", "short">>

-----------------------------------------------------------------------------
(* Properties of the shutdown flush, checked under Spec *)

\* The last snapshot submitted on detector d
LastSubmitted(d) == motion_detectors[d].submitted[Len(motion_detectors[d].submitted)]

\* Once cleanup shuts an executor down (line 381), the detector's buffer has
\* been flushed: every earlier snapshot was a full segment handed off by
\* process_frame, one more snapshot holds the frames that were buffered
\* below capacity, in order, and the live buffer is empty.
FlushedBeforeDrain ==
    \A d \in DOMAIN motion_detectors :
        LET det == motion_detectors[d] IN
        det.executor_shutdown =>
            /\ det.frame_buffer = <<>>
            /\ Concat(det.submitted) = det.appended
            /\ Len(det.submitted) = (Len(det.appended) \div SegmentFrames) + 1
            /\ \A i \in 1..(Len(det.submitted) - 1) : Len(det.submitted[i]) = SegmentFrames
            /\ Len(LastSubmitted(d)) = Len(det.appended) % SegmentFrames

\* Cleanup's swap copies the buffered frames and their flags, and its
\* submission queues exactly that copy while the executor still accepts
\* tasks.
FlushCarriesBuffer ==
    /\ (pc[Main] = "pcs_swap" /\ pc'[Main] = "pcs_submit") =>
           /\ loc'[Main].frames_copy = motion_detectors[loc[Main].d].frame_buffer
           /\ loc'[Main].motion_frames_copy = motion_detectors[loc[Main].d].motion_frames
    /\ (pc[Main] = "pcs_submit" /\ pc'[Main] # "pcs_submit") =>
           LET det == motion_detectors[loc[Main].d]
               after == motion_detectors'[loc[Main].d]
           IN  /\ ~det.executor_shutdown
               /\ Len(after.queue) = Len(det.queue) + 1
               /\ after.queue[Len(after.queue)].frames = loc[Main].frames_copy
               /\ after.queue[Len(after.queue)].motion_frames = loc[Main].motion_frames_copy
               /\ pc'[Main] = "cl_shutdown"

\* C11: on shutdown, a detector whose buffer is non-empty and below capacity
\* gets exactly one final ClipTask, whose snapshot is the buffered frames and
\* flags in order, submitted before that detector's worker pool is shut down
\* and drained.
C11_ShutdownFlush == []FlushedBeforeDrain /\ [][FlushCarriesBuffer]_vars

\* Cleanup waits for the pool of cam1 while the final task, one buffered
\* frame, is still queued.
C11_Witness ==
    /\ pc[Main] = "cl_wait"
    /\ Has(motion_detectors, "cam1")
    /\ motion_detectors["cam1"].executor_shutdown
    /\ Len(LastSubmitted("cam1")) = 1
    /\ Len(motion_detectors["cam1"].submitted) = 1
    /\ Len(motion_detectors["cam1"].queue) = 1

-----------------------------------------------------------------------------
(* Properties of the devices' separation, checked under Spec *)

\* What the system holds for device d: its frame-store entry, its motion
\* buffer, its last-used bucket, its frame counter and its writer handle
DeviceState(d) ==
    [frame   |-> Get(frames, d),
     buffer  |-> IF Has(motion_detectors, d)
                 THEN <<motion_detectors[d].frame_buffer, motion_detectors[d].motion_frames>>
                 ELSE <<>>,
     bucket  |-> Get(last_video_time, d),
     counter |-> Get(frame_counters, d),
     writer  |-> Get(video_writers, d)]

\* The payloads cameras upload for device d
PayloadsOf(d) == {CameraJpeg(d, n) : n \in 1..MaxFrames}

\* A step of task t's upload or update_frame for its device leaves what
\* the system holds for every other device as it was.
IngestionLeavesOthers ==
    \A t \in Callers :
        pc'[t] # pc[t] =>
            LET A == IF pc[t] = "idle" THEN loc'[t].d ELSE loc[t].d
            IN  \A B \in Devices \ {A} : DeviceState(B)' = DeviceState(B)

\* get_frame(B) is never a payload uploaded for another device
NoForeignFrame ==
    \A B \in Devices : \A A \in Devices \ {B} :
        get_frame(B) = <<>> \/ get_frame(B)[1] \notin PayloadsOf(A)

\* C12: for distinct devices A and B and every interleaving of their
\* uploads, an ingestion step for A leaves B's frame-store entry, motion
\* buffer, last-used bucket, frame counter and writer handle unchanged, and
\* get_frame(B) never returns a payload uploaded for A.
C12_DeviceIsolation == []NoForeignFrame /\ [][IngestionLeavesOthers]_vars

\* An update for cam2 has stored its frame and recorded it while the system
\* holds a frame, a writer, a bucket, a counter and a buffered frame of cam1.
C12_Witness ==
    \E t \in Callers :
        /\ pc[t] = "uf_motion"
        /\ loc[t].d = "cam2"
        /\ get_frame("cam2") = <<loc[t].data>>
        /\ get_frame("cam1") # <<>>
        /\ Has(video_writers, "cam1") /\ Has(video_writers, "cam2")
        /\ Has(frame_counters, "cam1")
        /\ Has(motion_detectors, "cam1")
        /\ motion_detectors["cam1"].frame_buffer # <<>>

-----------------------------------------------------------------------------
(* Properties of the locks, checked under FairSpecCalls *)

\* The positions at which a thread waits for the system lock, and for its
\* detector's lock
SystemLockWaits == {"uf_lock", "gf_lock", "ga_lock", "rd_lock", "cm_lock"}
DetectorLockWaits == {"pf_lock", "pcs_lock"}

\* The holder of the system lock can take a step, or it is cleanup waiting
\* for a worker pool whose workers can take one
HolderCanStep ==
    /\ \A t \in Callers : sys_lock = t => ENABLED ThreadStep(t)
    /\ sys_lock = Main =>
           \/ ENABLED CleanupStep
           \/ /\ pc[Main] = "cl_wait"
              /\ ENABLED (WorkerStart(loc[Main].d) \/ WorkerFinish(loc[Main].d))

\* The holder of device d's detector lock
DetectorLock(d) == IF Has(motion_detectors, d) THEN motion_detectors[d].lock ELSE Free

\* A thread waiting for a detector's lock finds it free: the lock is taken
\* only by the holder of the system lock, and released before that thread
\* waits for it again
DetectorLockFree ==
    \A t \in AllTasks : pc[t] \in DetectorLockWaits => DetectorLock(loc[t].d) = Free

NoDeadlock == HolderCanStep /\ DetectorLockFree

\* Some thread waits for the system lock
SomeWaiter == \E t \in Callers : pc[t] \in SystemLockWaits

\* The system lock is free and, if cleanup has started, cleanup is done.
\* No thread waits for the lock once cleanup has started (CL_Lock).
Available == sys_lock = Free /\ (shutting_down => pc[Main] = "done")

\* C13: no reachable state is a deadlock: across concurrent update_frame,
\* get_frame, get_annotated_frame, registration and configuration calls,
\* clip workers and cleanup, every thread that waits for the system lock or
\* a detector's lock is eventually able to acquire it, and cleanup, with
\* its waits on the worker pools, always completes.
C13_NoDeadlock ==
    /\ []NoDeadlock
    /\ (SomeWaiter \/ shutting_down) ~> Available

\* The reader waits for the system lock while update_frame holds it and the
\* detector's lock.
C13_Witness ==
    /\ pc[Client] \in SystemLockWaits
    /\ sys_lock = Feeder
    /\ pc[Feeder] = "pf_append"
    /\ DetectorLock(loc[Feeder].d) = Feeder

-----------------------------------------------------------------------------
(* Properties of the lock's scope, checked under Spec *)

\* Task t is inside update_frame, holding the lock that guards its device
Ingesting(t) == sys_lock = t /\ pc[t] \notin {"idle", "uf_lock"}

\* C14: each device's state is guarded by a lock scoped to that device: an
\* ingestion holding the lock for device A does not exclude a concurrent
\* ingestion for another device B, which can take its own lock and go on.
C14_Original ==
    \A t \in Callers : \A u \in Callers \ {t} :
        (Ingesting(t) /\ pc[u] = "uf_lock" /\ loc[u].d # loc[t].d) => ENABLED UF_Lock(u)

-----------------------------------------------------------------------------
(* Properties of the submission of ClipTasks, checked under SpecCalls *)

\* C15 as stated: the ingestion path holds neither the detector's lock nor
\* the system lock at the point of submission.
C15_Original ==
    \A t \in Callers :
        pc[t] = "pcs_submit" => (sys_lock # t /\ DetectorLock(loc[t].d) # t)

\* A caller's submission finds the detector's lock released, is made under
\* the system lock, queues the task and goes on at once
SubmissionGoesOn ==
    \A t \in Callers :
        (pc[t] = "pcs_submit" /\ pc'[t] # "pcs_submit") =>
            /\ DetectorLock(loc[t].d) = Free
            /\ sys_lock = t /\ sys_lock' = t
            /\ Len(motion_detectors'[loc[t].d].queue) = Len(motion_detectors[loc[t].d].queue) + 1
            /\ pc'[t] = "pmd_store"

\* After its submission the caller can always take its next step, and a
\* pool with work can always run it, whatever locks are held
NobodyWaitsForTheTask ==
    /\ \A t \in Callers :
           /\ pc[t] = "pmd_store" => ENABLED PMD_Store(t)
           /\ pc[t] = "uf_unlock" => ENABLED UF_Unlock(t)
    /\ \A d \in DOMAIN motion_detectors :
           /\ (motion_detectors[d].queue # <<>> /\ Len(motion_detectors[d].running) < MaxWorkers)
                  => ENABLED WorkerStart(d)
           /\ motion_detectors[d].running # <<>> => ENABLED WorkerFinish(d)

\* C15 (amended): ClipTask submission is fire-and-forget: the ingestion
\* path does not wait for the task to complete and has released the
\* detector's lock before it submits; it holds the system lock at the point
\* of submission, until update_frame returns, and the worker takes no lock.
C15_FireAndForget == []NobodyWaitsForTheTask /\ [][SubmissionGoesOn]_vars

\* The caller has submitted the full buffer and still holds the system lock
\* while a worker runs the task.
C15_Witness ==
    \E t \in Callers :
        /\ pc[t] = "pmd_store"
        /\ sys_lock = t
        /\ motion_detectors[loc[t].d].frame_buffer = <<>>
        /\ Len(motion_detectors[loc[t].d].running) = 1

-----------------------------------------------------------------------------
(* Properties of the failures of the recording step, checked under Spec *)

\* The last element of a non-empty list
Last(xs) == xs[Len(xs)]

\* C16: whatever fails inside the continuous-recording step of a frame
\* (the writer, the output directory, the bucket), the frame is still
\* stored and, on a device with motion detection, still appended to the
\* motion buffer: once no call is in progress, the frame the store holds
\* for such a device is the last frame its detector was given.
C16_Original ==
    \A d \in DOMAIN motion_detectors :
        (sys_lock = Free /\ Has(frames, d) /\ devices[d].motion_detection) =>
            /\ motion_detectors[d].appended # <<>>
            /\ Last(motion_detectors[d].appended) = ImDecode(frames[d])

-----------------------------------------------------------------------------
(* Properties of undecodable payloads, checked under SpecCalls *)

\* Task t is in update_frame with a payload that has both markers and that
\* the codec rejects
CodecFailure(t) ==
    /\ pc[t] \notin {"idle", "gf_lock", "gf_read", "gf_return", "ga_lock", "ga_read",
                     "ga_return", "rd_lock", "rd_body", "cm_lock", "cm_body"}
    /\ StartsWith(loc[t].data, SOI) /\ EndsWith(loc[t].data, EOI)
    /\ ~ImDecodes(loc[t].data)

\* C17: a payload with valid markers that cannot be decoded mutates no
\* state: no step of update_frame on it changes the frame store, the
\* devices' last-seen time and status, the recorder state or the motion
\* buffers.
C17_Original ==
    [][\A t \in Callers :
          (CodecFailure(t) /\ pc'[t] # pc[t]) =>
              UNCHANGED <<frames, devices, recorder_vars, motion_vars>>]_vars

-----------------------------------------------------------------------------
(* Properties of the frame store's reads, checked under SpecCalls *)

\* A get_frame call is about to return: it has read under the lock, which
\* it still holds
Reading(t) == pc[t] = "gf_return"

\* C18: after any interleaving of update_frame and get_frame calls,
\* get_frame(d) returns exactly the payload of the most recent accepted
\* update_frame for d, whole, or None when d is unknown or has had no
\* accepted frame.
C18_LatestAcceptedFrame ==
    \A t \in Callers :
        Reading(t) =>
            IF Has(accepted, loc[t].d)
            THEN loc[t].result = <<accepted[loc[t].d]>>
            ELSE loc[t].result = <<>>

\* get_frame("cam1") returns the second of two frames accepted for cam1.
C18_Witness ==
    /\ Reading(Client)
    /\ loc[Client].d = "cam1"
    /\ loc[Client].result = <<CameraJpeg("cam1", 2)>>
    /\ Has(frame_counters, "cam1")
    /\ frame_counters["cam1"] = 2

-----------------------------------------------------------------------------
(* Properties of process_segment, checked under SpecRanges *)

Processed == rpc = "processed"

\* The label of the k-th clip of the segment: device, segment timestamp and
\* clip number
ClipLabel(k) == <<SnapshotDevice, NowTime, k>>

\* The k-th clip holds exactly the frames at the Python indices start..end
\* of the snapshot, in order
ClipOfInterval(k) ==
    LET start == merged_ranges[k][1]
        end == merged_ranges[k][2]
        fs == SnapshotFrames(Len(motion_frames_arg))
    IN  /\ 0 <= start /\ start <= end /\ end < Len(fs)
        /\ Has(clips, ClipLabel(k))
        /\ clips[ClipLabel(k)] = [i \in 1..(end - start + 1) |-> fs[start + i]]

\* C19: process_segment writes exactly one clip per merged interval and
\* none otherwise: no clip for a snapshot with no true flag; otherwise the
\* k-th merged interval, counted from 1, gives the clip labelled
\* <segment timestamp>_clip<k>, holding exactly the frames start..end.
C19_OneClipPerInterval ==
    Processed =>
        IF \A i \in 1..Len(motion_frames_arg) : ~motion_frames_arg[i]
        THEN clips = EmptyDict
        ELSE /\ DOMAIN clips = {ClipLabel(k) : k \in 1..Len(merged_ranges)}
             /\ \A k \in 1..Len(merged_ranges) : ClipOfInterval(k)

\* A snapshot with two merged intervals has given two clips.
C19_Witness ==
    /\ Processed
    /\ Len(merged_ranges) = 2
    /\ Has(clips, ClipLabel(2))
    /\ Len(clips[ClipLabel(1)]) > 1

-----------------------------------------------------------------------------
(* Properties of the segment bucket, checked under SpecBuckets *)

HourOf(t) == t \div 3600
MinuteOf(t) == (t % 3600) \div 60

\* 10:02:00, 10:04:59 and 10:05:00 as seconds since midnight
At_10_02_00 == 10 * 3600 + 2 * 60
At_10_04_59 == 10 * 3600 + 4 * 60 + 59
At_10_05_00 == 10 * 3600 + 5 * 60

\* C20: with a rotation interval of N minutes a frame's bucket is its time
\* with the seconds dropped and the minute rounded down to a multiple of N,
\* so two times in the same hour have the same bucket exactly when
\* floor(minute/N) is equal; for N = 5, 10:02:00 and 10:04:59 share a
\* bucket and 10:02:00 and 10:05:00 do not.
C20_BucketComputation ==
    bucket_out # <<>> =>
        LET t1 == bucket_in.first
            t2 == bucket_in.second
            N == bucket_in.minutes
            b1 == bucket_out[1]
            b2 == bucket_out[2]
        IN  /\ b1[1] = HourOf(t1)
            /\ b1[2] % N = 0 /\ b1[2] <= MinuteOf(t1) /\ MinuteOf(t1) < b1[2] + N
            /\ HourOf(t1) = HourOf(t2) =>
                   (b1 = b2 <=> MinuteOf(t1) \div N = MinuteOf(t2) \div N)
            /\ (N = 5 /\ t1 = At_10_02_00 /\ t2 = At_10_04_59) => b1 = b2
            /\ (N = 5 /\ t1 = At_10_02_00 /\ t2 = At_10_05_00) => b1 # b2

\* The buckets of 10:02:00 and 10:04:59 under a rotation of 5 minutes have
\* been computed, and are both 10:00.
C20_Witness ==
    /\ bucket_out = << <<10, 0>>, <<10, 0>> >>
    /\ bucket_in = [first |-> At_10_02_00, second |-> At_10_04_59, minutes |-> 5]
-----------------------------------------------------------------------------
(* Properties of the handler's answer, checked under SpecUpload *)

\* The handler has returned a dict whose status is success or error
Answered ==
    /\ up_response # <<>>
    /\ up_response[1].status \in {"success", "error"}

\* The positions of the handler and of the update_frame it calls, each in
\* the order of the code: what is left to run gets shorter along them
HandlerPositions == <<"start", "raw", "raw_respond", "scan", "stream", "done">>
UpdateFramePositions ==
    <<"uf_lock", "uf_store", "uf_record", "uf_motion", "pf_lock", "pf_append",
      "pf_check", "pcs_lock", "pcs_swap", "pcs_submit", "pmd_store", "uf_unlock",
      "idle">>
PositionIn(positions, p) == CHOOSE i \in 1..Len(positions) : positions[i] = p

\* What the handler has left to do: the bytes of the body not yet received,
\* the bytes of the buffer not yet carved, the code after its position
Unreceived == Len(request.body) - up_pos
Uncarved == Len(up_buffer)
HandlerAt == PositionIn(HandlerPositions, up_pc)
UpdateFrameAt == PositionIn(UpdateFramePositions, pc[Handler])

\* A step after which strictly less is left to do
Nearer ==
    \/ Unreceived' < Unreceived
    \/ /\ Unreceived' = Unreceived
       /\ \/ Uncarved' < Uncarved
          \/ /\ Uncarved' = Uncarved
             /\ \/ HandlerAt' > HandlerAt
                \/ HandlerAt' = HandlerAt /\ UpdateFrameAt' > UpdateFrameAt

\* C21: every call to the upload endpoint, for every content type and every
\* well-formed or malformed body, returns a response whose status is
\* success or error: the handler never ends without one, and each of its
\* steps leaves it strictly less to do, so that no call is left without a
\* response.
C21_Original == [](up_pc = "done" => Answered) /\ [][Nearer]_vars
-----------------------------------------------------------------------------
(* Properties of the live view's framing as an upload, checked under SpecUpload *)

\* A frame in the framing the live view emits: the content type of line
\* 753, and one part with its JPEG, with or without a Content-Length
LiveViewFraming ==
    /\ request.content_type = CTMixedReplace
    /\ request.parts \in {<<"plain">>, <<"length">>}

\* C22: a frame uploaded in the chunked framing the live view emits
\* (multipart/x-mixed-replace with a boundary, a single part with or without
\* Content-Length, blank line, JPEG bytes, CRLF) is accepted by the upload
\* endpoint and becomes the device's latest frame in the frame store.
C22_Original ==
    (up_pc = "done" /\ LiveViewFraming)
        => /\ Answered
           /\ up_response[1].status = "success"
           /\ Get(frames, request.device) = <<GoodJpeg(1)>>
-----------------------------------------------------------------------------
(* Properties of the live view, checked under SpecEndpoints *)

\* The outbound framing of a payload: --frame CRLF, Content-Type: image/jpeg
\* CRLF, CRLF, the payload, CRLF
OutboundFraming(payload) ==
    DashDash \o <<102, 114, 97, 109, 101>> \o CRLF
    \o <<67, 111, 110, 116, 101, 110, 116, 45, 84, 121, 112, 101, 58, 32>>
    \o ImageJpeg \o CRLF \o CRLF \o payload \o CRLF

\* Task t serves a live-view request for a device that is not registered
\* (no device is ever removed, so it was not registered at any time of the
\* request)
UnregisteredStream(t) ==
    /\ endpoint[t].handler = "stream_video"
    /\ ~Has(devices, endpoint[t].device_id[1])

\* The frames a camera of device d may have sent
CameraFrames(d) == {CameraJpeg(d, n) : n \in 1..(MaxCalls + 1)}

\* The stream of task t is exactly one frame in the outbound framing: the
\* placeholder when the frame store has no entry, a frame of the device
\* or the placeholder read before it otherwise
OneFrame(t) ==
    LET d == endpoint[t].device_id[1] IN
    /\ Len(endpoint[t].yielded) = 1
    /\ \E payload \in CameraFrames(d) \cup {BlankJpeg} :
          /\ endpoint[t].yielded[1] = OutboundFraming(payload)
          /\ ~Has(frames, d) => payload = BlankJpeg

\* C23 as stated: a live-view stream request for a device id that is not
\* registered does not fail and terminates: it yields exactly one frame (a
\* placeholder image when the frame store has no entry) wrapped in the
\* outbound framing and then ends.
C23_Original ==
    \A t \in Tasks :
        (UnregisteredStream(t) /\ endpoint[t].at = "ended")
            => /\ endpoint[t].response = << [status |-> "ok"] >>
               /\ OneFrame(t)

\* The request asks for at least one part
AsksForParts(t) == endpoint[t].limit = <<>> \/ endpoint[t].limit[1] >= 1

\* C23 (amended): a live-view stream request for a device id that is not
\* registered does not fail and terminates.  Without a limit, or with a limit
\* of at least 1, it yields exactly one frame (a placeholder image when the
\* frame store has no entry) wrapped in the outbound framing and ends with
\* that frame; with limit=0 it ends without yielding anything.
C23_UnregisteredStream ==
    \A t \in Tasks :
        UnregisteredStream(t) =>
            /\ endpoint[t].response = << [status |-> "ok"] >>
            /\ Len(endpoint[t].yielded) <= 1
            /\ Len(endpoint[t].yielded) = 1 => endpoint[t].at = "ended"
            /\ endpoint[t].at = "ended" =>
                  IF AsksForParts(t) THEN OneFrame(t) ELSE endpoint[t].yielded = <<>>

\* A request without a limit for the unknown cam2, whose frame store entry
\* is absent, has ended after the placeholder in the outbound framing
C23_Witness ==
    \E t \in Tasks :
        /\ UnregisteredStream(t)
        /\ endpoint[t].at = "ended"
        /\ endpoint[t].device_id = <<"cam2">>
        /\ ~Has(frames, "cam2")
        /\ endpoint[t].limit = <<>>
        /\ endpoint[t].yielded = << OutboundFraming(BlankJpeg) >>

\* Task t serves a live-view request with limit=n for a device that was
\* registered when the request came
LimitedStream(t) ==
    /\ endpoint[t].handler = "stream_video"
    /\ endpoint[t].known
    /\ endpoint[t].limit # <<>>

\* Part i of the stream of task t is a payload in the outbound framing: the
\* placeholder when the frame store has no entry, a frame of the device or
\* the placeholder read before it otherwise
FramedPart(t, i) ==
    LET d == endpoint[t].device_id[1] IN
    \E payload \in CameraFrames(d) \cup {BlankJpeg} :
        /\ endpoint[t].yielded[i] = OutboundFraming(payload)
        /\ ~Has(frames, d) => payload = BlankJpeg

\* The stream never holds more than n parts, it has exactly n when it has
\* ended, and each of them is a payload in the outbound framing
LimitKept ==
    \A t \in Tasks :
        LimitedStream(t) =>
            /\ Len(endpoint[t].yielded) <= endpoint[t].limit[1]
            /\ endpoint[t].at = "ended" => Len(endpoint[t].yielded) = endpoint[t].limit[1]
            /\ \A i \in 1..Len(endpoint[t].yielded) : FramedPart(t, i)

\* The generator's read of the frame store returns the store's entry, and
\* the part it yields next holds what the call returned, or the placeholder
\* when it returned None
YieldsWhatWasRead ==
    \A t \in Tasks :
        /\ (endpoint[t].handler = "stream_video" /\ pc[t] = "gf_read"
            /\ pc'[t] = "gf_return")
              => loc'[t].result = Get(frames, endpoint[t].device_id[1])
        /\ (endpoint[t].handler = "stream_video"
            /\ Len(endpoint'[t].yielded) = Len(endpoint[t].yielded) + 1)
              => endpoint'[t].yielded =
                    Append(endpoint[t].yielded,
                           OutboundFraming(IF endpoint[t].returned = <<>> THEN BlankJpeg
                                           ELSE endpoint[t].returned[1]))

-----------------------------------------------------------------------------
(* Properties of the registry's endpoints, checked under SpecEndpoints *)

\* Task t runs the with block of register_device for device d in this step
Registers(t, d) == pc[t] = "rd_body" /\ loc[t].d = d /\ pc'[t] = "idle"

\* The registry's ids change only by a register_device call, which adds its
\* id if it is new and adds nothing otherwise: one entry per distinct id
OneEntryPerId ==
    /\ \A t \in Tasks, d \in Devices :
          Registers(t, d) => DOMAIN devices' = (DOMAIN devices) \cup {d}
    /\ (\A t \in Tasks, d \in Devices : ~Registers(t, d))
          => DOMAIN devices' = DOMAIN devices

\* Task t answers a request to list the devices in this step
Lists(t) == endpoint'[t].handler = "list_devices" /\ endpoint'[t] # endpoint[t]

\* The answer to a listing holds exactly the registry's entries
ListsTheEntries ==
    \A t \in Tasks :
        Lists(t) => /\ endpoint'[t].response[1].status = "ok"
                    /\ {e.device_id : e \in endpoint'[t].response[1].devices}
                          = DOMAIN devices

\* C25: after any sequence of register_device calls, the device registry
\* holds exactly one entry per distinct device id that was registered
\* (re-registering an existing id adds no entry), and listing devices
\* returns exactly those entries.
C25_Original == [][OneEntryPerId /\ ListsTheEntries]_vars

\* Task t handles a registration request that lacks a device_id or a type
Lacking(t) ==
    /\ endpoint[t].handler = "register_device"
    /\ endpoint[t].device_id = <<>> \/ endpoint[t].device_type = <<>>

\* Such a request is answered at once with an error status, and its task
\* never enters system.register_device
RefusedAtOnce ==
    \A t \in Tasks :
        Lacking(t) => /\ endpoint[t].at = "done"
                      /\ endpoint[t].response = << [status |-> "error"] >>
                      /\ pc[t] \notin {"rd_lock", "rd_body"}

\* The step that handles such a request leaves the registry as it was
RefusalKeepsRegistry ==
    \A t \in Tasks :
        (Lacking(t)' /\ endpoint'[t] # endpoint[t]) => devices' = devices

\* C26: a registration request that lacks a device_id or a type returns an
\* error status and leaves the device registry unchanged.
C26_InvalidRegistration == []RefusedAtOnce /\ [][RefusalKeepsRegistry]_vars

\* With cam1 registered, the request {} and a request without a type have
\* been answered with the error status, the registry still holding cam1 only
C26_Witness ==
    \E t \in Tasks :
        /\ Lacking(t)
        /\ endpoint[t].response = << [status |-> "error"] >>
        /\ endpoint[t].device_type = <<>>
        /\ endpoint[t].device_id \in {<<>>, <<"cam2">>}
        /\ DOMAIN devices = {"cam1"}

\* Task t runs the with block of update_device_alias in this step
UpdatesAlias(t) == pc[t] = "ua_body" /\ pc'[t] = "ua_return"

\* The fields of a Device other than its alias
OtherFields(device) ==
    [type |-> device.type, last_seen |-> device.last_seen, status |-> device.status,
     motion_detection |-> device.motion_detection]

\* On a registered device the call sets the alias, changes nothing else and
\* returns True; on an unregistered id it changes nothing and returns False
AliasSetOrRefused ==
    \A t \in Tasks :
        UpdatesAlias(t) =>
            LET d == loc[t].d IN
            IF d \in DOMAIN devices
            THEN /\ DOMAIN devices' = DOMAIN devices
                 /\ devices'[d].alias = <<loc[t].alias>>
                 /\ OtherFields(devices'[d]) = OtherFields(devices[d])
                 /\ \A other \in (DOMAIN devices) \ {d} : devices'[other] = devices[other]
                 /\ loc'[t].result = <<TRUE>>
            ELSE /\ devices' = devices
                 /\ loc'[t].result = <<FALSE>>

\* The registry changes in no other step of the call or of its handler
AliasCallOtherwiseSilent ==
    \A t \in Tasks :
        (~UpdatesAlias(t)
         /\ (pc[t] \in {"ua_lock", "ua_body", "ua_return"}
             \/ endpoint'[t].handler = "update_device_alias")
         /\ \A other \in Tasks \ {t} : pc'[other] = pc[other])
            => devices' = devices

\* The endpoint reports what the call returned: status updated with the
\* device id and the alias for True, status error for False
AliasReported ==
    \A t \in Tasks :
        (endpoint[t].handler = "update_device_alias" /\ endpoint[t].at = "done")
            => endpoint[t].response =
                  IF endpoint[t].returned = <<TRUE>>
                  THEN << [status |-> "updated", device_id |-> endpoint[t].device_id[1],
                           alias |-> endpoint[t].alias[1]] >>
                  ELSE << [status |-> "error"] >>

\* C27: update_device_alias on a registered device sets that device's alias
\* to the given value, changes no other device and no other field, and
\* reports success; on an unregistered device id it reports failure and
\* leaves the registry unchanged.
C27_UpdateAlias ==
    []AliasReported /\ [][AliasSetOrRefused /\ AliasCallOtherwiseSilent]_vars

\* With cam1 and cam2 registered, cam2's alias was set to Kitchen and
\* reported; cam1 has no alias
C27_Witness ==
    \E t \in Tasks :
        /\ endpoint[t].handler = "update_device_alias"
        /\ endpoint[t].at = "done"
        /\ endpoint[t].response =
              << [status |-> "updated", device_id |-> "cam2", alias |-> "Kitchen"] >>
        /\ DOMAIN devices = {"cam1", "cam2"}
        /\ devices["cam2"].alias = <<"Kitchen">>
        /\ devices["cam1"].alias = <<>>
-----------------------------------------------------------------------------
(* The scan of _find_motion_ranges against its reference, under SpecRanges *)

\* The reference scan after the flags of the 0-based indices 0..k-1: whether
\* it is in motion, the start of the open interval, the intervals recorded
RECURSIVE ReferenceAfter(_, _, _, _)
ReferenceAfter(flags, k, b, m) ==
    IF k = 0 THEN [in_motion |-> FALSE, start |-> 0, recorded |-> <<>>]
    ELSE LET before == ReferenceAfter(flags, k - 1, b, m)
             i == k - 1
             flag(j) == flags[j + 1]
             window == IF b < i THEN b ELSE i
             quiet == \A j \in (i - window)..(i - 1) : ~flag(j)
             padded == IF i + b < Len(flags) - 1 THEN i + b ELSE Len(flags) - 1
         IN  IF flag(i) /\ ~before.in_motion
             THEN [before EXCEPT !.in_motion = TRUE,
                                 !.start = IF i - b > 0 THEN i - b ELSE 0]
             ELSE IF ~flag(i) /\ before.in_motion /\ quiet
             THEN [before EXCEPT
                      !.in_motion = FALSE,
                      !.recorded = IF padded - before.start + 1 >= m
                                   THEN Append(@, <<before.start, padded>>)
                                   ELSE @]
             ELSE before

\* The reference scan: motion still active at the end closes at len-1
ReferenceScan(flags, b, m) ==
    LET after == ReferenceAfter(flags, Len(flags), b, m) IN
    IF after.in_motion /\ (Len(flags) - 1) - after.start + 1 >= m
    THEN Append(after.recorded, <<after.start, Len(flags) - 1>>)
    ELSE after.recorded

\* C28: for every bounded flag sequence and every buffer_frames and
\* min_recording_frames, the intervals produced by the scan in
\* _find_motion_ranges before merging equal those of the reference scan:
\* motion starts at the first true index i while not in motion with start =
\* max(0, i - buffer_frames); motion ends at a false index i while in motion
\* when the min(buffer_frames, i) preceding flags are all false, with end =
\* min(len-1, i + buffer_frames); motion still active at the end closes at
\* len-1; an interval is recorded only if end - start + 1 >=
\* min_recording_frames.
C28_ScanMatchesReference ==
    rpc \in {"returned", "remerged"}
        => ranges = ReferenceScan(motion_frames_arg, buffer_frames, min_recording_frames)

\* The scan of T F F T F F F F T T with buffer_frames = 3 and
\* min_recording_frames = 4 has returned: the first motion ends at index 7,
\* after three quiet frames, and is recorded as (0,9); the second is still
\* active at the end, closes at 9 and is recorded as (5,9)
C28_Witness ==
    /\ rpc = "returned"
    /\ motion_frames_arg = <<TRUE, FALSE, FALSE, TRUE, FALSE, FALSE, FALSE, FALSE, TRUE, TRUE>>
    /\ buffer_frames = 3
    /\ min_recording_frames = 4
    /\ ranges = << <<0, 9>>, <<5, 9>> >>

\* Two maximal runs of true flags separated by exactly buffer_frames false
\* frames, buffer_frames at least 1
BoundaryEqualPairs(mf, b) ==
    {pair \in TrueRuns(mf) \X TrueRuns(mf) : b >= 1 /\ pair[2][1] - pair[1][2] - 1 = b}

\* The scan's events at the indices from lo to hi
EventsWithin(mf, b, lo, hi) ==
    LET events == ScanEvents(mf, b) IN
    {k \in 1..Len(events) : lo <= events[k].at /\ events[k].at <= hi}

\* From the first run's start to the second run's end the scan closes
\* nothing and opens nothing but, at most, the motion at the first run's
\* start: both runs belong to one motion.  Motion is closed only at a false
\* index preceded by buffer_frames false flags.  The interval of that one
\* motion holds both runs, and is in the scanned list when two runs and
\* their gap are long enough to be recorded.
NeverSplit(mf, b, m, rs) ==
    /\ \A pair \in BoundaryEqualPairs(mf, b) :
          LET first == pair[1]
              second == pair[2]
          IN  /\ \A k \in EventsWithin(mf, b, first[1], second[2]) :
                    /\ ScanEvents(mf, b)[k].opened
                    /\ ScanEvents(mf, b)[k].at = first[1]
              /\ (second[2] - first[1] + 1 >= m)
                    => \E k \in 1..Len(rs) : rs[k][1] <= first[1] /\ second[2] <= rs[k][2]
    /\ \A k \in 1..Len(ScanEvents(mf, b)) :
          LET e == ScanEvents(mf, b)[k] IN
          ~e.opened => /\ ~mf[e.at + 1]
                       /\ e.at >= b
                       /\ \A j \in (e.at - b)..(e.at - 1) : ~mf[j + 1]

\* C29: boundary-equal case: in _find_motion_ranges motion is closed only at
\* a false index preceded by buffer_frames consecutive false flags
\* (buffer_frames+1 false flags in a row), so two runs of true flags
\* separated by exactly buffer_frames false frames are never split: they lie
\* in one interval that is opened once and closed once.
C29_BoundaryEqual ==
    rpc \in {"returned", "remerged"}
        => NeverSplit(motion_frames_arg, buffer_frames, min_recording_frames, ranges)

\* The scan of F F T F F T F F F F with buffer_frames = 2 has returned: the
\* runs at 2 and at 5 are two false frames apart; motion opened at 2 and
\* closed at 8, and the one interval (0,9) holds both
C29_Witness ==
    /\ rpc = "returned"
    /\ motion_frames_arg = <<FALSE, FALSE, TRUE, FALSE, FALSE, TRUE, FALSE, FALSE, FALSE, FALSE>>
    /\ buffer_frames = 2
    /\ min_recording_frames = 4
    /\ ScanEvents(motion_frames_arg, buffer_frames)
          = << [opened |-> TRUE, at |-> 2], [opened |-> FALSE, at |-> 8] >>
    /\ ranges = << <<0, 9>> >>
-----------------------------------------------------------------------------
(* Properties of cleanup's return, checked under SpecCalls *)

\* Every ClipTask submitted to the pool of a detector that is in
\* motion_detectors has finished, the detector's buffers are empty, and its
\* last submission was made by cleanup's flush
DetectorsDrained ==
    \A d \in DOMAIN motion_detectors :
        LET det == motion_detectors[d] IN
        /\ det.queue = <<>>
        /\ det.running = <<>>
        /\ det.executor_shutdown
        /\ det.frame_buffer = <<>>
        /\ det.motion_frames = <<>>
        /\ det.submitted # <<>>
        /\ Concat(det.submitted) = det.appended

\* Every continuous-recording writer has been released
WritersReleased == \A d \in DOMAIN video_writers : ~video_writers[d].opened

\* C30 as stated: cleanup returns only after every ClipTask ever submitted
\* to each detector's worker pool, including the final flushed segment, has
\* finished running; when it returns, every motion buffer is empty and
\* every open continuous-recording writer has been released.
C30_Original ==
    pc[Main] = "done" => /\ DetectorsDrained
                         /\ retired = <<>>
                         /\ WritersReleased

\* C30 (amended): cleanup returns only after every ClipTask submitted to
\* the worker pool of each detector that is in motion_detectors at
\* shutdown, including the final flushed segment, has finished running;
\* when it returns, the motion buffer of each of these detectors is empty
\* and every open continuous-recording writer has been released.  The
\* ClipTasks still held by the pool of a detector that
\* configure_motion_detection replaced or removed are not waited for.
C30_CleanupDrains ==
    pc[Main] = "done" => /\ DetectorsDrained
                         /\ WritersReleased

\* Cleanup has returned: the pool of cam1's detector ran a full segment and
\* the flushed rest, and cam1's writer, which was open, is released
C30_Witness ==
    /\ pc[Main] = "done"
    /\ Has(motion_detectors, "cam1")
    /\ Len(motion_detectors["cam1"].submitted) = 2
    /\ Len(motion_detectors["cam1"].submitted[1]) = SegmentFrames
    /\ Len(LastSubmitted("cam1")) = 1
    /\ Has(video_writers, "cam1")
    /\ video_writers["cam1"].written >= 1
-----------------------------------------------------------------------------
(* C31: reconfiguring motion detection drops the partially filled buffer *)

\* The elements of a list
Elements(xs) == {xs[i] : i \in 1..Len(xs)}

\* The frames of every ClipTask there is or was: the snapshots submitted to
\* the executors of the detectors in place, those still held by the executors
\* of replaced detectors, the snapshots about to be submitted, and the
\* frames of the clips written
ClipTaskFrames ==
    UNION ( {Elements(snapshot) :
                snapshot \in UNION {Elements(motion_detectors[d].submitted) :
                                       d \in DOMAIN motion_detectors}}
            \cup {Elements(task.frames) :
                      task \in UNION {Elements(motion_detectors[d].queue)
                                      \cup Elements(motion_detectors[d].running) :
                                      d \in DOMAIN motion_detectors}}
            \cup {Elements(retired[i].task.frames) : i \in 1..Len(retired)}
            \cup {Elements(loc[t].frames_copy) : t \in AllTasks}
            \cup {Elements(clips[k]) : k \in DOMAIN clips} )

\* C31: the frames that were in a detector's buffer when
\* configure_motion_detection replaced the detector (enabling again) or
\* deleted it (disabling) are in no ClipTask, at that moment or later.
C31_BufferDropped == discarded \cap ClipTaskFrames = {}

\* A buffer was dropped, and the device's new detector has handed off a
\* later snapshot
C31_Witness ==
    /\ discarded # {}
    /\ \E d \in DOMAIN motion_detectors : motion_detectors[d].submitted # <<>>
-----------------------------------------------------------------------------
(* C32: a submitted ClipTask is independent of the live buffer *)

\* The ClipTasks of device d that executors hold, queued or running, given
\* the detectors in place and the tasks of the replaced ones
HeldTasks(detectors, replaced, d) ==
    (IF Has(detectors, d)
     THEN Elements(detectors[d].queue) \cup Elements(detectors[d].running)
     ELSE {})
    \cup {replaced[i].task : i \in {j \in 1..Len(replaced) : replaced[j].d = d}}

\* The ClipTask a thread is about to submit for device d (line 365)
BeingSubmitted(d) == {ClipTask(t) : t \in HandingOff(d)}

\* A step leaves every held ClipTask as it was: the tasks held after the
\* step are tasks held before it, frame list and flag list unchanged, or
\* the one submitted by the step
SnapshotsKept ==
    \A d \in Devices :
        HeldTasks(motion_detectors', retired', d)
            \subseteq HeldTasks(motion_detectors, retired, d) \cup BeingSubmitted(d)

\* A step of a worker of device d's pool: no thread moves, and the running
\* tasks change
WorkerStepOf(d) ==
    /\ pc' = pc
    /\ Has(motion_detectors, d)
    /\ Has(motion_detectors', d)
    /\ motion_detectors'[d].running # motion_detectors[d].running

\* A worker's step takes and releases no lock
WorkerTakesNoLock ==
    \A d \in Devices :
        WorkerStepOf(d) => /\ sys_lock' = sys_lock
                           /\ motion_detectors'[d].lock = motion_detectors[d].lock

\* A worker with a task can run it to its end whoever holds the locks
WorkerNeverWaits ==
    \A d \in DOMAIN motion_detectors :
        motion_detectors[d].running # <<>> => ENABLED WorkerFinish(d)

\* C32: no process_frame, hand-off or cleanup changes the frame list or the
\* flag list of a ClipTask already submitted, and the worker that runs
\* process_segment acquires neither the detector's lock nor the system's.
C32_SnapshotIndependent ==
    /\ []WorkerNeverWaits
    /\ [][SnapshotsKept /\ WorkerTakesNoLock]_vars

\* A ClipTask is running while one thread holds the system's lock and the
\* detector's lock and appends the next frame to the live buffer
C32_Witness ==
    \E d \in DOMAIN motion_detectors, t \in Callers :
        /\ motion_detectors[d].running # <<>>
        /\ motion_detectors[d].running[1].frames # <<>>
        /\ sys_lock = t
        /\ motion_detectors[d].lock = t
        /\ pc[t] = "pf_append"
-----------------------------------------------------------------------------
(* C33: a part without a length header waits for the next boundary *)

\* The request is a multipart upload whose boundary was found
MultipartRequest == request.content_type = CTMultipart

\* Part i of the request's body carries no length header
Headerless(i) == DeclaredLength(request.parts[i], i) = <<>>

\* The bytes of the body up to and including the boundary token that
\* follows part i
ThroughNextBoundary(i) == Len(BodyOf(SubSeq(request.parts, 1, i))) + Len(Delimiter)

\* A frame of a part without a length header has been emitted only if the
\* bytes received reach past the boundary token after the part
EmittedAfterNextBoundary ==
    \A i \in 1..Len(request.parts) :
        (Headerless(i) /\ PartPayload(request.parts[i], i) \in Elements(up_emitted))
            => /\ i < Len(request.parts)
               /\ up_pos >= ThroughNextBoundary(i)

\* When the stream has ended on a last part without a length header, the
\* part is still in the buffer, which the handler drops with its response
LastPartDiscarded ==
    (/\ up_pc = "done"
     /\ request.parts # <<>>
     /\ Headerless(Len(request.parts))
     /\ up_response # <<>>
     /\ up_response[1].status = "success")
        => EndsWith(up_buffer, PartBytes(Last(request.parts), Len(request.parts)))

\* C33: a part without a length header is emitted only once a later
\* boundary token is in the buffer; the bytes still buffered when the stream
\* ends are dropped, so the last part of a stream with no closing boundary
\* and no length header yields no frame.
C33_HeaderlessWaits ==
    MultipartRequest => EmittedAfterNextBoundary /\ LastPartDiscarded

\* Two parts without length headers: the stream has ended, the first part
\* was emitted and the second is still in the buffer
C33_Witness ==
    /\ MultipartRequest
    /\ request.parts = <<"plain", "plain">>
    /\ up_pc = "done"
    /\ up_emitted = <<GoodJpeg(1)>>
    /\ up_buffer = PartBytes("plain", 2)
-----------------------------------------------------------------------------
(* C34: the boundary token and the boundary parameter of the request *)

\* The handler is past lines 498-510 with a boundary
BoundaryParsed == up_pc \in {"stream", "scan", "done"} /\ up_boundary # <<>>

\* b"--" and the value of the boundary= parameter as the request gives it
BoundaryToken == ParseBoundary(request.content_type)

\* The stream of a request whose parts are delimited by its boundary token
\* and carry their lengths has ended
DelimitedStreamEnded ==
    /\ request.content_type \in {CTMultipart, CTMultipartUpper}
    /\ request.parts \in {<<"length">>, <<"plain", "length">>}
    /\ up_pc = "done"

\* C34 as stated: the boundary token the extractor searches for is exactly
\* "--" followed by the value of the boundary= parameter of the request's
\* Content-Type header, character for character, so parts delimited by that
\* token are recognised for every boundary value, including values with
\* upper-case letters.
C34_Original ==
    /\ BoundaryParsed => up_boundary = BoundaryToken
    /\ DelimitedStreamEnded =>
           up_emitted = [i \in 1..Len(request.parts) |-> GoodJpeg(i)]
-----------------------------------------------------------------------------
(* C35: the carved payload narrowed to its JPEG *)

\* The positions (1-based) where the two bytes of marker begin in payload
MarkerAt(payload, marker) ==
    {k \in 1..(Len(payload) - 1) : payload[k] = marker[1] /\ payload[k + 1] = marker[2]}

\* The least and the greatest of a non-empty set of positions
Least(S) == CHOOSE k \in S : \A j \in S : k <= j
Greatest(S) == CHOOSE k \in S : \A j \in S : k >= j

\* The payload has FF D8, and FF D9 after the first FF D8
Narrowable(payload) ==
    /\ MarkerAt(payload, SOI) # {}
    /\ MarkerAt(payload, EOI) # {}
    /\ Greatest(MarkerAt(payload, EOI)) > Least(MarkerAt(payload, SOI))

\* The bytes from the first FF D8 to the last FF D9, both included
MarkerRange(payload) ==
    SubSeq(payload, Least(MarkerAt(payload, SOI)), Greatest(MarkerAt(payload, EOI)) + 1)

\* The loop is about to carve a part, and the payload it will carve
Carving == up_pc = "scan" /\ pc[Handler] = "idle" /\ ~ScanIteration(up_buffer, up_boundary).wait
CarvedPayload == ScanIteration(up_buffer, up_boundary).frame_data

\* The step that carves a part emits the range between the markers, if the
\* codec decodes it, and emits nothing when the payload has no such range
CarveNarrowed ==
    Carving =>
        up_emitted' = IF Narrowable(CarvedPayload) /\ ImDecodes(MarkerRange(CarvedPayload))
                      THEN Append(up_emitted, MarkerRange(CarvedPayload))
                      ELSE up_emitted

\* Every payload in the frame store starts with FF D8 and ends with FF D9
StoreHoldsJpegs ==
    \A d \in DOMAIN frames :
        /\ Len(frames[d]) >= 4
        /\ SubSeq(frames[d], 1, 2) = SOI
        /\ SubSeq(frames[d], Len(frames[d]) - 1, Len(frames[d])) = EOI

\* C35: the frame emitted for a carved part payload is exactly the bytes
\* from the first FF D8 to the last FF D9 inclusive; nothing is emitted when
\* a marker is absent or the last FF D9 is not after the first FF D8; every
\* payload the frame store ever holds starts with FF D8 and ends with FF D9.
C35_NarrowedToMarkers == []StoreHoldsJpegs /\ [][CarveNarrowed]_vars

\* A part without a length header was carved with the CRLF that ends it
\* and its JPEG alone was emitted; the part after it was carved by its
\* length, and its JPEG is the frame stored
C35_Witness ==
    /\ request.content_type = CTMultipart
    /\ request.parts = <<"plain", "length">>
    /\ up_last_carve # <<>>
    /\ up_emitted = <<GoodJpeg(1), GoodJpeg(2)>>
    /\ Has(frames, "cam1")
    /\ frames["cam1"] = GoodJpeg(2)
-----------------------------------------------------------------------------
(* C36: the frame ranges _create_motion_clip refuses *)

\* The interval the loop of SpecClips is at
ClipInterval == ranges[1]

\* The range is empty or out of bounds: no frames, start > end, or an index
\* of start..end outside 0..len-1
EmptyOrOutOfBounds(n, start_idx, end_idx) ==
    \/ n = 0
    \/ start_idx > end_idx
    \/ \E i \in start_idx..end_idx : i < 0 \/ i > n - 1

\* C36 as stated: _create_motion_clip writes no clip file whenever the
\* requested frame range is empty or out of bounds (no frames, start > end,
\* or any index of start..end outside 0..len-1), and such a skipped clip
\* does not abort the worker: the remaining intervals of the same segment
\* are still written.
C36_Original ==
    [][(rpc = "clips" /\ EmptyOrOutOfBounds(Len(motion_frames_arg),
                                            ClipInterval[1], ClipInterval[2]))
          => (clips' = clips /\ rpc' # "raised")]_vars
-----------------------------------------------------------------------------
(* C37, C38: the writers of process_continuous_recording *)

\* Task t runs the try block of process_continuous_recording (215-269) in
\* this step, for the device and the bucket below
Recording(t) ==
    /\ pc[t] = "uf_record"
    /\ pc'[t] = "uf_motion"
    /\ ContinuousRecording
RecordingBucket == CurrentVideoTime(NowTime, RecordingSegmentMinutes)
BucketDiffers(d) == ~Has(last_video_time, d) \/ last_video_time[d] # RecordingBucket

\* The events of the call begin with prefix
BeginsWith(events, prefix) ==
    Len(events) >= Len(prefix) /\ SubSeq(events, 1, Len(prefix)) = prefix

\* The bucket differs: the writer in use is released, then a new one is
\* created; the last-used bucket is the frame's; the new writer, if it is
\* open, holds this frame alone; no other writer of the device is open
Rotates(t) ==
    LET d == loc[t].d IN
    (Recording(t) /\ BucketDiffers(d)) =>
        /\ BeginsWith(loc'[t].events,
                      IF Has(video_writers, d) THEN <<"release", "create">>
                      ELSE <<"create">>)
        /\ last_video_time'[d] = RecordingBucket
        /\ video_writers'[d].bucket = RecordingBucket
        /\ video_writers'[d].opened =>
               video_writers'[d].written = 1 /\ loc'[t].events[Len(loc'[t].events) - 1] = "write"
        /\ open_writers'[d] = IF video_writers'[d].opened THEN 1 ELSE 0

\* The bucket is unchanged and the writer is open: the frame is written to
\* it, and no writer is released or created
KeepsWriter(t) ==
    LET d == loc[t].d IN
    (Recording(t) /\ ~BucketDiffers(d) /\ Has(video_writers, d) /\ video_writers[d].opened) =>
        /\ loc'[t].events = <<"write", "count">>
        /\ video_writers' = [video_writers EXCEPT ![d].written = @ + 1]
        /\ UNCHANGED <<last_video_time, open_writers>>

\* A device has at most one open writer, the one in self.video_writers
AtMostOneOpenWriter ==
    \A d \in DOMAIN open_writers :
        /\ open_writers[d] <= 1
        /\ open_writers[d] = 1 => Has(video_writers, d) /\ video_writers[d].opened

\* C37: when a frame's bucket differs from the device's last-used bucket
\* the device's writer is released before the new one is created, the
\* last-used bucket becomes the frame's and the frame is written to the new
\* writer; when the bucket is unchanged and the writer is open no writer is
\* closed or created; a device never has more than one open writer.
C37_RotationOrder ==
    /\ []AtMostOneOpenWriter
    /\ [][Rotates(Handler) /\ KeepsWriter(Handler)]_vars

\* The device's writer of the earlier bucket was released and the writer of
\* the new bucket holds the frame
C37_Witness ==
    /\ loc[Handler].events = <<"release", "create", "write", "count">>
    /\ video_writers["cam1"] = [NewWriter(TRUE, RecordingBucket) EXCEPT !.written = 1]
    /\ last_video_time["cam1"] = RecordingBucket
    /\ open_writers["cam1"] = 1

\* The recreations among the events of a call
Recreations(events) == Cardinality({i \in 1..Len(events) : events[i] = "recreate"})

\* The writer is not open when the frame is to be written (line 240): it is
\* recreated once, and only then
RecreatedOnce(t) ==
    LET d == loc[t].d
        created == "create" \in Elements(loc'[t].events)
        open_at_write == IF created
                         THEN open_writers'[d] = 1 /\ ~("recreate" \in Elements(loc'[t].events))
                         ELSE Has(video_writers, d) /\ video_writers[d].opened
    IN  Recording(t) =>
            Recreations(loc'[t].events) = IF open_at_write THEN 0 ELSE 1

\* The writer is still not open after this step: the frame was written to
\* no writer, and the device's frame counter has grown by one
SkippedAndCounted(t) ==
    LET d == loc[t].d IN
    (Recording(t) /\ ~video_writers'[d].opened) =>
        /\ ~("write" \in Elements(loc'[t].events))
        /\ video_writers'[d].written = 0
        /\ frame_counters'[d] = (IF Has(frame_counters, d) THEN frame_counters[d] ELSE 0) + 1

\* C38: when the device's writer is not open at write time it is recreated
\* at most once for that frame; if the recreated writer is still not open
\* the frame's write is skipped, and the per-device frame counter is still
\* incremented.
C38_SingleRetry ==
    [][RecreatedOnce(Handler) /\ SkippedAndCounted(Handler)
       /\ (Recording(Handler) =>
              frame_counters'[loc[Handler].d] =
                  (IF Has(frame_counters, loc[Handler].d)
                   THEN frame_counters[loc[Handler].d] ELSE 0) + 1)]_vars

\* The writer left not open by the frame before was recreated for this
\* frame, did not open either, and the frame was counted without a write
C38_Witness ==
    /\ loc[Handler].events = <<"recreate", "count">>
    /\ ~video_writers["cam1"].opened
    /\ video_writers["cam1"].written = 0
    /\ frame_counters["cam1"] >= 2
-----------------------------------------------------------------------------
(* SpecConfig: registration, configuration and ingestion, with the         *)
(* annotated live view                                                     *)

\* set_system_config  (main.py 353-358); the endpoint hands it any
\* SecuritySystemConfig (865-867)
SystemConfigs == [continuous_recording : BOOLEAN, motion_detection : BOOLEAN]

CallSetSystemConfig(t, cfg) ==
    /\ Call(t, "sc_lock")
    /\ loc' = [loc EXCEPT ![t].config = cfg]

\* line 356: self.config = config
SC_Body(t) ==
    /\ pc[t] = "sc_body"
    /\ config' = loc[t].config
    /\ Return(t)
    /\ UNCHANGED <<rvars, discarded, open_writers, uvars, store_vars, recorder_vars,
                   motion_vars, clips, now, shutting_down, next_frame, accepted, retired>>

SetSystemConfigStep(t) ==
    \/ Acquire(t, "sc_lock", "sc_body")
    \/ SC_Body(t)

\* GET /stream/{device_id}/annotated?limit=1  (main.py 756-797): the
\* handler returns the StreamingResponse and generate() runs to its first
\* call, system.get_annotated_frame (763)
AnnotatedViewBegin(t, device_id) ==
    /\ Begin(t)
    /\ endpoint' = [endpoint EXCEPT ![t] =
           [EndpointIdle EXCEPT !.handler = "stream_annotated_video",
                                !.at = "get_annotated_frame",
                                !.device_id = <<device_id>>, !.limit = <<1>>,
                                !.known = Has(devices, device_id),
                                !.response = << [status |-> "ok"] >>]]
    /\ pc' = [pc EXCEPT ![t] = "ga_lock"]
    /\ loc' = [loc EXCEPT ![t].d = device_id]
    /\ UNCHANGED devices
    /\ EndpointFrame

\* The stored frame fetched whatever get_annotated_frame returned.
FallsBackAlways(frame_data) == TRUE

\* line 766: if frame_data is None
FallsBack(frame_data) == frame_data = <<>>

\* What the steps of the view leave alone
ViewFrame ==
    UNCHANGED <<rvars, hvars, request, up_pc, up_pos, up_buffer, up_boundary, up_emitted,
                up_last_carve, up_response, store_vars, recorder_vars, motion_vars,
                clips, now, shutting_down, next_frame, accepted, retired>>

\* lines 785-792: the part is yielded; frame_count grows for a registered
\* device, and with limit=1 or the break of line 787 the generator ends
Yielded(t, frame_data) ==
    [endpoint[t] EXCEPT !.frame_data = frame_data,
                        !.yielded = << frame_data >>,
                        !.frame_count = IF Has(devices, endpoint[t].device_id[1])
                                        THEN @ + 1 ELSE @,
                        !.at = "ended"]

\* lines 763-767: get_annotated_frame has returned; on None the generator
\* calls system.get_frame, otherwise it yields what was returned
AnnotatedReturned(t) ==
    /\ pc[t] = "ga_return"
    /\ endpoint[t].handler = "stream_annotated_video"
    /\ sys_lock' = Free
    /\ IF FallsBack(loc[t].result)
       THEN /\ pc' = [pc EXCEPT ![t] = "gf_lock"]
            /\ loc' = [loc EXCEPT ![t] = [IdleLoc EXCEPT !.d = loc[t].d]]
            /\ endpoint' = [endpoint EXCEPT ![t].at = "get_frame",
                                            ![t].returned = loc[t].result]
       ELSE /\ pc' = [pc EXCEPT ![t] = "idle"]
            /\ loc' = [loc EXCEPT ![t] = IdleLoc]
            /\ endpoint' = [endpoint EXCEPT
                   ![t] = [Yielded(t, loc[t].result[1]) EXCEPT !.returned = loc[t].result]]
    /\ ViewFrame

\* lines 767-792: get_frame has returned; its frame, or the blank picture
\* for None, is yielded
FrameReturned(t) ==
    /\ pc[t] = "gf_return"
    /\ endpoint[t].handler = "stream_annotated_video"
    /\ Return(t)
    /\ endpoint' = [endpoint EXCEPT
           ![t] = [Yielded(t, FrameDataOr(loc[t].result)) EXCEPT !.returned = loc[t].result]]
    /\ ViewFrame

AnnotatedViewStep(t) ==
    \/ Acquire(t, "ga_lock", "ga_read")
    \/ GA_Read(t)
    \/ AnnotatedReturned(t)
    \/ Acquire(t, "gf_lock", "gf_read")
    \/ GF_Read(t)
    \/ FrameReturned(t)

\* The system after the earlier uploads of one of the DeviceStates, with
\* the configuration of a system that has no system_config.json
InitConfig ==
    /\ RangesIdle
    /\ BucketsIdle
    /\ buffer_frames = ClipBufferFrames
    /\ min_recording_frames = ClipMinFrames
    /\ UploadIdle
    /\ EndpointsIdle
    /\ \E state \in DeviceStates :
          /\ devices = DevicesBefore(state)
          /\ frames = FramesBefore(state)
          /\ video_writers = WritersBefore(state)
          /\ last_video_time = LastVideoTimeBefore(state)
          /\ frame_counters = FrameCountersBefore(state)
          /\ motion_detectors = DetectorsBefore(state)
          /\ motion_detected = MotionDetectedBefore(state)
          /\ annotated_frames = AnnotatedBefore(state)
          /\ accepted = FramesBefore(state)
    /\ sys_lock = Free
    /\ clips = EmptyDict
    /\ now = 2
    /\ shutting_down = FALSE
    /\ next_frame = 1
    /\ retired = <<>>
    /\ discarded = {}
    /\ config = DefaultConfig
    /\ open_writers = OpenOf(video_writers)
    /\ pc = [t \in Tasks \cup {Main} |-> "idle"]
    /\ loc = [t \in Tasks \cup {Main} |-> IdleLoc]

\* The Feeder ingests frames; the Client registers, configures the devices
\* and the system, and opens the annotated live view
NextConfig ==
    \/ \E d \in Devices :
          \/ CallUpdateFrameDirect(Feeder, d, CameraJpeg(d, next_frame))
          \/ CallRegisterDevice(Client, d)
          \/ \E enabled \in BOOLEAN : CallConfigureMotionDetection(Client, d, enabled)
          \/ AnnotatedViewBegin(Client, d)
    \/ \E cfg \in SystemConfigs : CallSetSystemConfig(Client, cfg)
    \/ UpdateFrameStep(Feeder)
    \/ RegisterDeviceStep(Client)
    \/ ConfigureMotionDetectionStep(Client)
    \/ SetSystemConfigStep(Client)
    \/ AnnotatedViewStep(Client)
    \/ \E d \in Devices : WorkerStart(d)
    \/ \E d \in Devices : WorkerFinish(d)
    \/ RetiredFinish

SpecConfig == InitConfig /\ [][NextConfig]_vars
-----------------------------------------------------------------------------
(* C39: the device's flag, its detector and the system-wide setting *)

\* A registered device's flag is true exactly when it has a detector
FlagMatchesDetector ==
    \A d \in DOMAIN devices : devices[d].motion_detection <=> Has(motion_detectors, d)

\* A frame is appended to the buffer of device d's detector in this step
Appends(d) ==
    /\ Has(motion_detectors, d)
    /\ Has(motion_detectors', d)
    /\ Len(motion_detectors'[d].appended) = Len(motion_detectors[d].appended) + 1

AppendsWhileEnabled ==
    \A d \in Devices :
        Appends(d) => /\ config.motion_detection
                      /\ Has(devices, d)
                      /\ devices[d].motion_detection

\* C39: in every state reachable by registration, configuration and
\* ingestion a registered device's motion_detection flag is true exactly
\* when a detector exists for it; a frame is appended to a motion buffer
\* only while the system-wide motion_detection setting and the device's
\* flag are both true.
C39_FlagAndDetector == []FlagMatchesDetector /\ [][AppendsWhileEnabled]_vars

\* cam2 was registered, then configured with motion detection, and a frame
\* of it is in its detector's buffer
C39_Witness ==
    /\ Has(devices, "cam2")
    /\ devices["cam2"].motion_detection
    /\ Has(motion_detectors, "cam2")
    /\ motion_detectors["cam2"].appended = << ImDecode(CameraJpeg("cam2", 3)) >>
    /\ config.motion_detection

-----------------------------------------------------------------------------
(* C40: the annotated frame of a device whose motion detection is disabled *)

\* configure_motion_detection with enabled false returns in this step
Disables(t) == pc[t] = "cm_body" /\ ~loc[t].flag /\ pc'[t] = "idle"

DisableKeeps ==
    Disables(Client) => UNCHANGED <<annotated_frames, motion_detected>>

\* Device d is registered with motion detection disabled
Disabled(d) == Has(devices, d) /\ ~devices[d].motion_detection

\* While a device stays disabled no step changes its annotated frame or its
\* motion status, whatever is stored for it in self.frames
DisabledKeeps ==
    \A d \in Devices :
        (Disabled(d) /\ Disabled(d)') =>
            /\ Get(annotated_frames', d) = Get(annotated_frames, d)
            /\ Get(motion_detected', d) = Get(motion_detected, d)

\* get_annotated_frame, for a disabled device that has an annotated frame,
\* returns that frame
ReadOfDisabled ==
    LET d == loc[Client].d IN
    (pc[Client] = "ga_read" /\ pc'[Client] = "ga_return"
       /\ Disabled(d) /\ Has(annotated_frames, d)) =>
        loc'[Client].result = << annotated_frames[d] >>

\* and the live view yields it without calling get_frame
ViewOfDisabled ==
    LET d == loc[Client].d IN
    (pc[Client] = "ga_return" /\ pc'[Client] # "ga_return"
       /\ endpoint[Client].handler = "stream_annotated_video"
       /\ Disabled(d) /\ Has(annotated_frames, d)) =>
        /\ pc'[Client] = "idle"
        /\ endpoint'[Client].at = "ended"
        /\ endpoint'[Client].yielded = << annotated_frames[d] >>

\* C40: disabling motion detection for a device leaves its annotated frame
\* and its motion status unchanged; afterwards get_annotated_frame keeps
\* returning the last annotated frame and the annotated live view never
\* falls back to the newer frames of the frame store, whatever is uploaded.
C40_StaleAnnotatedFrame ==
    [][DisableKeeps /\ DisabledKeeps /\ ReadOfDisabled /\ ViewOfDisabled]_vars

\* cam1 was disabled, a newer frame of it was stored, and the live view
\* yielded the annotated frame of before the disabling
C40_Witness ==
    /\ Disabled("cam1")
    /\ Has(frames, "cam1")
    /\ Has(annotated_frames, "cam1")
    /\ frames["cam1"] = CameraJpeg("cam1", 2)
    /\ annotated_frames["cam1"].of = EarlierJpeg
    /\ endpoint[Client].handler = "stream_annotated_video"
    /\ endpoint[Client].at = "ended"
    /\ endpoint[Client].yielded = << annotated_frames["cam1"] >>
    /\ config = DefaultConfig

====
